---- MODULE Spec2Model ----
(***************************************************************************)
(* A model of the engine crate of xiaoxuan-vm: the module linker           *)
(* (linker.rs), the native module registry (native_module.rs) and the      *)
(* instruction dispatcher with its `end` handling (interpreter.rs,         *)
(* ins_control.rs).                                                        *)
(*                                                                         *)
(* Indices stored in values (module, function, type, instance indices and  *)
(* addresses) are 0-based as in the source; TLA+ sequences are 1-based, so *)
(* element i of a Vec v is v[i + 1].                                       *)
(***************************************************************************)
EXTENDS Integers, Sequences, FiniteSets, TLC

VARIABLES
    \* inputs of the link phase
    native_modules,         \* &[NativeModule]
    named_ast_modules,      \* &[NamedAstModule]
    \* link_functions
    lf_pc,                  \* position inside link_functions
    ast_module_index,       \* outer loop index (line 101)
    function_index,         \* inner loop index (line 104)
    function_items,         \* Vec<FunctionItem> of the module in progress
    function_items_list,    \* Vec<Vec<FunctionItem>>
    target_module_name,     \* chain cursor (line 115)
    target_function_name,   \* chain cursor (line 116)
    chain_steps,            \* iterations of the `loop` (line 118) for the current import
    lf_result,              \* [running |-> TRUE], [ok |-> ...] or [err |-> ...]
    \* link_tables / link_memorys
    resource_kind,          \* "table": link_tables runs; "memory": link_memorys runs
    lt_pc,                  \* position inside link_tables / link_memorys
    instance_tables,        \* Vec<VMTable> / Vec<VMMemory> (instance_memory_blocks)
    module_to_table_index_list, \* Vec<Option<usize>> (module_to_memory_block_index_list)
    lt_scan_index,          \* ast_module_index of the second for loop (line 563 / 717)
    lt_call_stack,          \* ast_module_index of each active resolve_ast_module_table call
    lt_returned,            \* the usize a returned callee gave: Ok(target_ast_module_index)
    lt_result,              \* [running |-> TRUE], [ok |-> ...], [err |-> ...] or [panic |-> ...]
    \* link_global_variables
    lg_pc,                  \* position inside link_global_variables
    instance_global_variables,       \* Vec<VMGlobalVariable>
    module_to_global_variables_list, \* Vec<Vec<Option<usize>>>
    lg_scan_module,         \* ast_module_index of the loop of line 888
    lg_scan_slot,           \* module_global_variable_index of the loop of line 895
    lg_call_stack,          \* <<ast_module_index, module_global_variable_index>> per active call
    lg_returned,            \* the usize a returned callee gave
    lg_result,              \* [running |-> TRUE], [ok |-> ...], [err |-> ...] or [panic |-> ...]
    \* interpreter
    vm,                     \* the VM: stack, status and resource.vm_modules
    vm_before,              \* the VM as it was when the last exec_instruction was entered
    vm_result,              \* what the last exec_instruction returned
    \* get_function_block_items
    gb_pc,                  \* "idle", "call" before and "done" after the call
    gb_instruction_items,   \* the instruction_items argument
    gb_block_items,         \* the Vec<BlockItem> returned
    \* NativeModule
    nm_self,                \* the NativeModule add_function is called on
    nm_calls,               \* the (name, params, results) of the add_function calls so far
    nm_found                \* the last find_function_index_by_name: its name and result

lfVars == <<lf_pc, ast_module_index, function_index, function_items,
            function_items_list, target_module_name, target_function_name,
            chain_steps, lf_result>>

inputVars == <<native_modules, named_ast_modules>>

ltVars == <<resource_kind, lt_pc, instance_tables, module_to_table_index_list,
            lt_scan_index, lt_call_stack, lt_returned, lt_result>>

lgVars == <<lg_pc, instance_global_variables, module_to_global_variables_list,
            lg_scan_module, lg_scan_slot, lg_call_stack, lg_returned, lg_result>>

vmVars == <<vm, vm_before, vm_result>>

gbVars == <<gb_pc, gb_instruction_items, gb_block_items>>

nmVars == <<nm_self, nm_calls, nm_found>>

vars == <<inputVars, lfVars, ltVars, lgVars, vmVars, gbVars, nmVars>>

\* no NativeModule under construction
NmIdle ==
    /\ nm_self = [name |-> "", function_types |-> <<>>, function_items |-> <<>>]
    /\ nm_calls = <<>>
    /\ nm_found = [called |-> FALSE, name |-> "", result |-> <<>>]

\* get_function_block_items not called on its own
GbIdle ==
    /\ gb_pc = "idle"
    /\ gb_instruction_items = <<>>
    /\ gb_block_items = <<>>

\* no program loaded into the interpreter
VmIdle ==
    /\ vm = [stack |-> <<>>, vm_modules |-> <<>>]
    /\ vm_before = [stack |-> <<>>, vm_modules |-> <<>>]
    /\ vm_result = [running |-> FALSE]

\* link_global_variables not running
LgIdle ==
    /\ lg_pc = "idle"
    /\ instance_global_variables = <<>>
    /\ module_to_global_variables_list = <<>>
    /\ lg_scan_module = 0
    /\ lg_scan_slot = 0
    /\ lg_call_stack = <<>>
    /\ lg_returned = 0
    /\ lg_result = [running |-> FALSE]

\* link_functions not running
LfIdle ==
    /\ lf_pc = "idle"
    /\ ast_module_index = 0
    /\ function_index = 0
    /\ function_items = <<>>
    /\ function_items_list = <<>>
    /\ target_module_name = ""
    /\ target_function_name = ""
    /\ chain_steps = 0
    /\ lf_result = [running |-> FALSE]

\* link_tables / link_memorys not running
LtIdle ==
    /\ resource_kind = "none"
    /\ lt_pc = "idle"
    /\ instance_tables = <<>>
    /\ module_to_table_index_list = <<>>
    /\ lt_scan_index = 0
    /\ lt_call_stack = <<>>
    /\ lt_returned = 0
    /\ lt_result = [running |-> FALSE]

----------------------------------------------------------------------------
(* Option<T>: None is the empty sequence, Some(x) the one-element sequence. *)

None == <<>>

Some(x) == <<x>>

IsSome(o) == Len(o) = 1

Unwrap(o) == o[1]

SetMin(S) == CHOOSE x \in S : \A y \in S : x <= y

Range(s) == {s[i] : i \in 1..Len(s)}

\* iter().enumerate().find(pred).map(index): the smallest 0-based index among
\* the 1-based positions S that satisfy the predicate
FirstIndex(S) == IF S = {} THEN None ELSE Some(SetMin(S) - 1)

----------------------------------------------------------------------------
(* Bounds of the model. *)

\* the chain-step counter saturates here (the source's loop has no counter)
MaxChainSteps == 8

\* nested resolve_* calls the machine stack holds before it overflows
MaxCallDepth == 5

----------------------------------------------------------------------------
(* Types. *)

ValueTypes == {"I32", "I64", "F32", "F64"}

FunctionType(params, results) == [params |-> params, results |-> results]

FT_void == FunctionType(<<>>, <<>>)

FT_i32_i32 == FunctionType(<<"I32">>, <<"I32">>)

\* instruction::BlockType
ResultEmpty == [bt |-> "ResultEmpty"]

ResultOf(vt) == [bt |-> "Result" \o vt]

TypeIndex(i) == [bt |-> "TypeIndex", type_index |-> i]

----------------------------------------------------------------------------
(* Instructions of the AST (only what the linker inspects). *)

InsBlock(block_type, block_index) ==
    [op |-> "Block", block_type |-> block_type, block_index |-> block_index]

InsLoop(block_type, block_index) ==
    [op |-> "Loop", block_type |-> block_type, block_index |-> block_index]

InsIf(block_type, block_index) ==
    [op |-> "If", block_type |-> block_type, block_index |-> block_index]

InsElse == [op |-> "Else"]

InsEnd == [op |-> "End"]

InsNop == [op |-> "Nop"]

----------------------------------------------------------------------------
(* get_function_block_items, linker.rs 351-459 *)

BlockLocation(block_index, block_item) ==
    [block_index |-> block_index, block_item |-> block_item]

\* a variant that starts an if with its own address as alternate address
NewBlockLocation_AlternateAtStart(ins, address) ==
    IF ins.op = "If"
    THEN [block_index |-> ins.block_index,
          block_item |-> [kind |-> "If", block_type |-> ins.block_type,
                          start_address |-> address, end_address |-> 0,
                          alternate_address |-> Some(address)]]
    ELSE [block_index |-> ins.block_index,
          block_item |-> [kind |-> ins.op, block_type |-> ins.block_type,
                          start_address |-> address, end_address |-> 0]]

\* the record pushed with a loop taken for a block
NewBlockLocation_LoopAsBlock(ins, address) ==
    IF ins.op = "If"
    THEN BlockLocation(ins.block_index,
            [kind |-> "If", block_type |-> ins.block_type,
             start_address |-> address, end_address |-> 0,
             alternate_address |-> None])
    ELSE BlockLocation(ins.block_index,
            [kind |-> "Block", block_type |-> ins.block_type,
             start_address |-> address, end_address |-> 0])

\* the record pushed for a block / loop / if at `address` (lines 359-389)
NewBlockLocation(ins, address) ==
    IF ins.op = "If"
    THEN BlockLocation(ins.block_index,
            [kind |-> "If", block_type |-> ins.block_type,
             start_address |-> address, end_address |-> 0,
             alternate_address |-> None])
    ELSE BlockLocation(ins.block_index,
            [kind |-> ins.op, block_type |-> ins.block_type,
             start_address |-> address, end_address |-> 0])

\* a variant that sorts by decreasing key
RECURSIVE InsertByKey_Descending(_, _)
InsertByKey_Descending(sorted, item) ==
    IF sorted = <<>> THEN <<item>>
    ELSE IF sorted[Len(sorted)].block_index >= item.block_index
         THEN Append(sorted, item)
         ELSE Append(InsertByKey_Descending(SubSeq(sorted, 1, Len(sorted) - 1), item),
                     sorted[Len(sorted)])

\* sort_by_key(|item| item.block_index): a stable insertion sort
RECURSIVE InsertByKey(_, _)
InsertByKey(sorted, item) ==
    IF sorted = <<>> THEN <<item>>
    ELSE IF sorted[Len(sorted)].block_index <= item.block_index
         THEN Append(sorted, item)
         ELSE Append(InsertByKey(SubSeq(sorted, 1, Len(sorted) - 1), item),
                     sorted[Len(sorted)])

RECURSIVE SortByBlockIndex(_)
SortByBlockIndex(s) ==
    IF s = <<>> THEN <<>>
    ELSE InsertByKey(SortByBlockIndex(SubSeq(s, 1, Len(s) - 1)), s[Len(s)])

\* the for loop of lines 357-449 from `address` on; the result is
\* [panic |-> TRUE] when the source indexes an empty stack or hits unreachable!
RECURSIVE ScanInstructions(_, _, _, _)
ScanInstructions(instruction_items, address, block_location_stack, block_locations) ==
    IF address = Len(instruction_items)
    THEN [panic |-> FALSE, block_locations |-> block_locations]
    ELSE
      LET ins == instruction_items[address + 1]
          n == Len(block_location_stack)
      IN
      IF ins.op \in {"Block", "Loop", "If"}
      THEN ScanInstructions(instruction_items, address + 1,
              Append(block_location_stack, NewBlockLocation(ins, address)),
              block_locations)
      ELSE IF ins.op = "Else"
      THEN IF n = 0 \/ block_location_stack[n].block_item.kind # "If"
           THEN [panic |-> TRUE, block_locations |-> block_locations]
           ELSE ScanInstructions(instruction_items, address + 1,
                  [block_location_stack EXCEPT
                      ![n].block_item.alternate_address = Some(address)],
                  block_locations)
      ELSE IF ins.op = "End"
      THEN IF n > 0
           THEN ScanInstructions(instruction_items, address + 1,
                  SubSeq(block_location_stack, 1, n - 1),
                  Append(block_locations,
                     [block_location_stack[n] EXCEPT
                         !.block_item.end_address = address]))
           ELSE ScanInstructions(instruction_items, address + 1,
                  block_location_stack, block_locations)
      ELSE ScanInstructions(instruction_items, address + 1,
              block_location_stack, block_locations)

\* a variant without the sort of line 452: the items in the order their
\* blocks were closed
get_function_block_items_Unsorted(instruction_items) ==
    LET r == ScanInstructions(instruction_items, 0, <<>>, <<>>)
    IN [i \in 1..Len(r.block_locations) |-> r.block_locations[i].block_item]

get_function_block_items(instruction_items) ==
    LET r == ScanInstructions(instruction_items, 0, <<>>, <<>>)
        sorted == SortByBlockIndex(r.block_locations)
    IN [i \in 1..Len(sorted) |-> sorted[i].block_item]

----------------------------------------------------------------------------
(* Function locations, linker.rs 24-37, 263-314 *)

IsFunctionImport(item) == item.import_descriptor.kind = "FunctionTypeIndex"

get_ast_module_import_function_locations(ast_module) ==
    LET imports == SelectSeq(ast_module.import_items, IsFunctionImport)
    IN [i \in 1..Len(imports) |->
          [kind |-> "Import",
           type_index |-> imports[i].import_descriptor.type_index,
           module_name |-> imports[i].module_name,
           function_name |-> imports[i].item_name]]

\* a variant that starts a function at the end_address of the previous one
RECURSIVE FunctionAddressOffset_AtPreviousEnd(_, _)
FunctionAddressOffset_AtPreviousEnd(ast_module, k) ==
    IF k = 0 THEN 0
    ELSE FunctionAddressOffset_AtPreviousEnd(ast_module, k - 1)
         + Len(ast_module.code_items[k].instruction_items) - 1

\* function_address_offset before internal function k (0-based)
RECURSIVE FunctionAddressOffset(_, _)
FunctionAddressOffset(ast_module, k) ==
    IF k = 0 THEN 0
    ELSE FunctionAddressOffset(ast_module, k - 1)
         + Len(ast_module.code_items[k].instruction_items)

get_ast_module_internal_function_locations(ast_module) ==
    [i \in 1..Len(ast_module.internal_function_to_type_index_list) |->
        LET instruction_items == ast_module.code_items[i].instruction_items
            offset == FunctionAddressOffset(ast_module, i - 1)
        IN [kind |-> "Internal",
            internal_function_index |-> i - 1,
            type_index |-> ast_module.internal_function_to_type_index_list[i],
            start_address |-> offset,
            end_address |-> offset + Len(instruction_items) - 1,
            block_items |-> get_function_block_items(instruction_items)]]

\* step 1 of link_functions (lines 69-85)
function_locations_list ==
    [i \in 1..Len(named_ast_modules) |->
        get_ast_module_import_function_locations(named_ast_modules[i].module)
        \o get_ast_module_internal_function_locations(named_ast_modules[i].module)]

----------------------------------------------------------------------------
(* Name lookups, linker.rs 461-510 *)

get_module_names ==
    [i \in 1..Len(native_modules) |-> native_modules[i].name]
    \o [i \in 1..Len(named_ast_modules) |-> named_ast_modules[i].name]

\* the lookup that takes the last module of the name
get_module_index_by_name_LastMatch(module_names, name) ==
    LET found == {i \in 1..Len(module_names) : module_names[i] = name}
    IN IF found = {} THEN None
       ELSE Some((CHOOSE i \in found : \A j \in found : j <= i) - 1)

get_module_index_by_name(module_names, name) ==
    FirstIndex({i \in 1..Len(module_names) : module_names[i] = name})

\* a variant that takes the last function of the name
find_function_index_by_name_LastMatch(native_module, name) ==
    LET found == {i \in 1..Len(native_module.function_items) :
                     native_module.function_items[i].name = name}
    IN IF found = {} THEN None
       ELSE Some((CHOOSE i \in found : \A j \in found : j <= i) - 1)

\* a variant that takes the first function whatever its name
find_function_index_by_name_AnyName(native_module, name) ==
    IF Len(native_module.function_items) > 0 THEN <<0>> ELSE <<>>

\* NativeModule::find_function_index_by_name, native_module.rs 78-84
find_function_index_by_name(native_module, name) ==
    FirstIndex({i \in 1..Len(native_module.function_items) :
                    native_module.function_items[i].name = name})

get_native_module_function_index_by_export_name(native_module, name) ==
    find_function_index_by_name(native_module, name)

\* find_map over export_items: the first item with the name that is a
\* function export
get_ast_module_function_index_by_export_name(ast_module, name) ==
    LET found == FirstIndex({i \in 1..Len(ast_module.export_items) :
                    /\ ast_module.export_items[i].name = name
                    /\ ast_module.export_items[i].export_descriptor.kind = "FunctionIndex"})
    IN IF IsSome(found)
       THEN Some(ast_module.export_items[Unwrap(found) + 1].export_descriptor.index)
       ELSE None

----------------------------------------------------------------------------
(* link_functions, linker.rs 57-261 *)

LinkError(kind, module_name, item_name) ==
    [err |-> kind, module_name |-> module_name, item_name |-> item_name]

\* FunctionItem::Native, lines 159-163
NativeItem(native_module_index, type_index, target_function_index) ==
    [kind |-> "Native",
     native_module_index |-> native_module_index,
     type_index |-> type_index,
     function_index |-> target_function_index]

\* a variant that stores the index among the internal functions as function_index
NormalItem_InternalIndex(vm_module_index, public_function_index, location) ==
    [kind |-> "Normal",
     vm_module_index |-> vm_module_index,
     type_index |-> location.type_index,
     function_index |-> location.internal_function_index,
     internal_function_index |-> location.internal_function_index,
     start_address |-> location.start_address,
     end_address |-> location.end_address,
     block_items |-> location.block_items]

\* FunctionItem::Normal built from an Internal location, lines 222-230 and 243-251
NormalItem(vm_module_index, public_function_index, location) ==
    [kind |-> "Normal",
     vm_module_index |-> vm_module_index,
     type_index |-> location.type_index,
     function_index |-> public_function_index,
     internal_function_index |-> location.internal_function_index,
     start_address |-> location.start_address,
     end_address |-> location.end_address,
     block_items |-> location.block_items]

\* the binding of an import to an internal function of another module, lines 222-231
ImportedNormalItem_WrongModule(importer_index, target_index, target_function_index, location) ==
    NormalItem(importer_index, target_function_index, location)

\* a variant that keeps the type index the importer declares
ImportedNormalItem_ImporterTypeIndex(importer_index, target_index, target_function_index, location) ==
    [NormalItem(target_index, target_function_index, location) EXCEPT
        !.type_index = get_ast_module_import_function_locations(
                          named_ast_modules[importer_index + 1].module)[function_index + 1]
                       .type_index]

ImportedNormalItem(importer_index, target_index, target_function_index, location) ==
    NormalItem(target_index, target_function_index, location)

\* a variant of the native branch without the type check of lines 150-157
ChainNative_NoTypeCheck(expected_function_type, target_native_module_index, tmn, tfn) ==
    LET target_native_module == native_modules[target_native_module_index + 1]
        found == get_native_module_function_index_by_export_name(target_native_module, tfn)
    IN IF ~IsSome(found)
       THEN [kind |-> "Err", err |-> [err |-> "NativeFunctionNotFound",
                                      module_name |-> tmn, item_name |-> tfn]]
       ELSE [kind |-> "Break",
             item |-> [kind |-> "Native",
                       native_module_index |-> target_native_module_index,
                       type_index |-> target_native_module.function_items[Unwrap(found) + 1].type_index,
                       function_index |-> Unwrap(found)]]

\* the native branch of the loop body, lines 126-165
ChainNative(expected_function_type, target_native_module_index, tmn, tfn) ==
    LET target_native_module == native_modules[target_native_module_index + 1]
        found == get_native_module_function_index_by_export_name(target_native_module, tfn)
    IN IF ~IsSome(found)
       THEN [kind |-> "Err", err |-> LinkError("NativeFunctionNotFound", tmn, tfn)]
       ELSE
         LET target_function_index == Unwrap(found)
             target_type_index ==
                 target_native_module.function_items[target_function_index + 1].type_index
             actual_function_type ==
                 target_native_module.function_types[target_type_index + 1]
         IN IF expected_function_type # actual_function_type
            THEN [kind |-> "Err",
                  err |-> LinkError("ImportedFunctionTypeMismatch", tmn, tfn)]
            ELSE [kind |-> "Break",
                  item |-> NativeItem(target_native_module_index, target_type_index,
                                      target_function_index)]

\* the AST branch of the loop body, lines 166-234
ChainAst(importer_index, expected_type_item, target_ast_module_index, tmn, tfn) ==
    LET target_ast_module == named_ast_modules[target_ast_module_index + 1].module
        found == get_ast_module_function_index_by_export_name(target_ast_module, tfn)
    IN IF ~IsSome(found)
       THEN [kind |-> "Err", err |-> LinkError("FunctionNotFound", tmn, tfn)]
       ELSE
         LET target_function_index == Unwrap(found)
             target_function_location ==
                 function_locations_list[target_ast_module_index + 1][target_function_index + 1]
         IN IF target_function_location.kind = "Import"
            THEN [kind |-> "Continue",
                  module_name |-> target_function_location.module_name,
                  function_name |-> target_function_location.function_name]
            ELSE
              LET actual_type_item ==
                      target_ast_module.type_items[target_function_location.type_index + 1]
              IN IF expected_type_item # actual_type_item
                 THEN [kind |-> "Err",
                       err |-> LinkError("ImportedFunctionTypeMismatch", tmn, tfn)]
                 ELSE [kind |-> "Break",
                       item |-> ImportedNormalItem(importer_index, target_ast_module_index,
                                                   target_function_index,
                                                   target_function_location)]

\* one iteration of the loop of lines 118-235 for the import at
\* (importer_index, import_function_index), with the chain cursor at (tmn, tfn)
ChainIteration(importer_index, import_function_index, tmn, tfn) ==
    LET location == function_locations_list[importer_index + 1][import_function_index + 1]
        expected_type_item ==
            named_ast_modules[importer_index + 1].module.type_items[location.type_index + 1]
        native_module_count == Len(native_modules)
        found == get_module_index_by_name(get_module_names, tmn)
    IN IF ~IsSome(found)
       THEN [kind |-> "Err", err |-> LinkError("ModuleNotFound", tmn, "")]
       ELSE IF Unwrap(found) < native_module_count
            THEN ChainNative(expected_type_item, Unwrap(found), tmn, tfn)
            ELSE ChainAst(importer_index, expected_type_item,
                          Unwrap(found) - native_module_count, tmn, tfn)

CurrentLocations == function_locations_list[ast_module_index + 1]

CurrentLocation == CurrentLocations[function_index + 1]

\* line 254 (function_items.push) and the step of the inner for loop
PushFunctionItem(item) ==
    /\ function_items' = Append(function_items, item)
    /\ function_index' = function_index + 1
    /\ lf_pc' = "for"
    /\ UNCHANGED <<ast_module_index, function_items_list, lf_result>>

\* lines 237-254: an internal function maps directly to FunctionItem::Normal
LfInternal ==
    /\ lf_pc = "for"
    /\ ast_module_index < Len(named_ast_modules)
    /\ function_index < Len(CurrentLocations)
    /\ CurrentLocation.kind = "Internal"
    /\ PushFunctionItem(NormalItem(ast_module_index, function_index, CurrentLocation))
    /\ UNCHANGED <<target_module_name, target_function_name, chain_steps, inputVars>>

\* lines 106-116: an import starts a chain at its own (module_name, function_name)
LfImportBegin ==
    /\ lf_pc = "for"
    /\ ast_module_index < Len(named_ast_modules)
    /\ function_index < Len(CurrentLocations)
    /\ CurrentLocation.kind = "Import"
    /\ target_module_name' = CurrentLocation.module_name
    /\ target_function_name' = CurrentLocation.function_name
    /\ chain_steps' = 0
    /\ lf_pc' = "loop"
    /\ UNCHANGED <<ast_module_index, function_index, function_items,
                   function_items_list, lf_result, inputVars>>

CurrentIteration ==
    ChainIteration(ast_module_index, function_index,
                   target_module_name, target_function_name)

CountStep == IF chain_steps < MaxChainSteps THEN chain_steps + 1 ELSE chain_steps

\* a loop iteration that returns Err (the ? and return Err of lines 120-219)
LfChainError ==
    /\ lf_pc = "loop"
    /\ CurrentIteration.kind = "Err"
    /\ lf_result' = CurrentIteration.err
    /\ lf_pc' = "done"
    /\ chain_steps' = CountStep
    /\ UNCHANGED <<ast_module_index, function_index, function_items,
                   function_items_list, target_module_name, target_function_name,
                   inputVars>>

\* a loop iteration that breaks with a FunctionItem (lines 165 and 231)
LfChainBreak ==
    /\ lf_pc = "loop"
    /\ CurrentIteration.kind = "Break"
    /\ PushFunctionItem(CurrentIteration.item)
    /\ chain_steps' = CountStep
    /\ UNCHANGED <<target_module_name, target_function_name, inputVars>>

\* a loop iteration that meets a re-exported import and goes round (lines 189-199)
LfChainContinue ==
    /\ lf_pc = "loop"
    /\ CurrentIteration.kind = "Continue"
    /\ target_module_name' = CurrentIteration.module_name
    /\ target_function_name' = CurrentIteration.function_name
    /\ chain_steps' = CountStep
    /\ UNCHANGED <<lf_pc, ast_module_index, function_index, function_items,
                   function_items_list, lf_result, inputVars>>

\* line 257: the module's list is complete
LfEndModule ==
    /\ lf_pc = "for"
    /\ ast_module_index < Len(named_ast_modules)
    /\ function_index = Len(CurrentLocations)
    /\ function_items_list' = Append(function_items_list, function_items)
    /\ function_items' = <<>>
    /\ function_index' = 0
    /\ ast_module_index' = ast_module_index + 1
    /\ UNCHANGED <<lf_pc, target_module_name, target_function_name, chain_steps,
                   lf_result, inputVars>>

\* line 260
LfReturnOk ==
    /\ lf_pc = "for"
    /\ ast_module_index = Len(named_ast_modules)
    /\ lf_result' = [ok |-> function_items_list]
    /\ lf_pc' = "done"
    /\ UNCHANGED <<ast_module_index, function_index, function_items,
                   function_items_list, target_module_name, target_function_name,
                   chain_steps, inputVars>>

----------------------------------------------------------------------------
(* The inputs of link_functions: three AST modules named A, B, C, each with  *)
(* at most two function imports and up to three internal functions, and at  *)
(* most two native modules.                                                 *)

AstModuleNames == <<"A", "B", "C">>

FunctionImportTargets == {"A", "B", "C", "env"}

TypeItemChoices == {<<FT_void, FT_i32_i32>>, <<FT_i32_i32, FT_void>>}

FunctionBody == <<InsBlock(ResultEmpty, 0), InsEnd, InsEnd>>

\* a second body, of another length
ShortFunctionBody == <<InsNop, InsEnd>>

FunctionImport(module_name, item_name, type_index) ==
    [module_name |-> module_name, item_name |-> item_name,
     import_descriptor |-> [kind |-> "FunctionTypeIndex", type_index |-> type_index]]

FunctionExport(name, index) ==
    [name |-> name, export_descriptor |-> [kind |-> "FunctionIndex", index |-> index]]

AstModule(type_items, import_items, export_items, internal_types, code_items) ==
    [type_items |-> type_items,
     import_items |-> import_items,
     export_items |-> export_items,
     internal_function_to_type_index_list |-> internal_types,
     code_items |-> code_items,
     tables |-> <<>>,
     memory_blocks |-> <<>>,
     global_items |-> <<>>]

FunctionImportChoices ==
    {<<>>} \cup {<<FunctionImport(m, "x", 0)>> : m \in FunctionImportTargets}

\* a module with functions exports one of them as "x"
FunctionExportChoices(function_count) ==
    {<<FunctionExport("x", i)>> : i \in 0..(function_count - 1)}

\* two function imports in one module, in both orders
TwoFunctionImports ==
    <<<<FunctionImport("env", "x", 0), FunctionImport("C", "x", 0)>>,
      <<FunctionImport("C", "x", 0), FunctionImport("env", "x", 0)>>>>

LfModuleChoices ==
    {AstModule(<<FT_void, FT_i32_i32>>, <<>>, <<>>, <<>>, <<>>)}
    \cup
    {AstModule(q[1], q[2], q[4], q[3],
               [i \in 1..Len(q[3]) |-> [instruction_items |-> FunctionBody]]) :
        q \in {q \in TypeItemChoices \X FunctionImportChoices \X {<<>>, <<0>>}
                     \X FunctionExportChoices(2) :
                 /\ Len(q[2]) + Len(q[3]) > 0
                 /\ q[4] \in FunctionExportChoices(Len(q[2]) + Len(q[3]))}}
    \cup
    {AstModule(<<FT_void, FT_i32_i32>>, TwoFunctionImports[1], <<FunctionExport("x", 2)>>,
               <<0>>, <<[instruction_items |-> FunctionBody]>>),
     AstModule(<<FT_void, FT_i32_i32>>, TwoFunctionImports[2], <<FunctionExport("x", 1)>>,
               <<0>>, <<[instruction_items |-> FunctionBody]>>),
     \* three internal functions of two lengths, the second one exported
     AstModule(<<FT_void, FT_i32_i32>>, <<>>, <<FunctionExport("x", 1)>>,
               <<0, 1, 0>>,
               <<[instruction_items |-> FunctionBody],
                 [instruction_items |-> ShortFunctionBody],
                 [instruction_items |-> FunctionBody]>>)}

NativeModuleChoices ==
    {<<>>,
     <<[name |-> "env",
        function_types |-> <<FT_void>>,
        function_items |-> <<[name |-> "x", type_index |-> 0]>>]>>,
     <<[name |-> "env",
        function_types |-> <<FT_void>>,
        function_items |-> <<[name |-> "y", type_index |-> 0]>>],
       \* a native module with the name of the first AST module
       [name |-> "A",
        function_types |-> <<FT_void>>,
        function_items |-> <<[name |-> "x", type_index |-> 0]>>]>>}

LfInit ==
    /\ native_modules \in NativeModuleChoices
    /\ named_ast_modules \in
         {[i \in 1..Len(AstModuleNames) |-> [name |-> AstModuleNames[i], module |-> m[i]]] :
            m \in [1..Len(AstModuleNames) -> LfModuleChoices]}
    /\ LtIdle
    /\ LgIdle
    /\ VmIdle
    /\ GbIdle
    /\ NmIdle
    /\ lf_pc = "for"
    /\ ast_module_index = 0
    /\ function_index = 0
    /\ function_items = <<>>
    /\ function_items_list = <<>>
    /\ target_module_name = ""
    /\ target_function_name = ""
    /\ chain_steps = 0
    /\ lf_result = [running |-> TRUE]

LfNext ==
    \/ LfInternal /\ UNCHANGED <<ltVars, lgVars, vmVars, gbVars, nmVars>>
    \/ LfImportBegin /\ UNCHANGED <<ltVars, lgVars, vmVars, gbVars, nmVars>>
    \/ LfChainError /\ UNCHANGED <<ltVars, lgVars, vmVars, gbVars, nmVars>>
    \/ LfChainBreak /\ UNCHANGED <<ltVars, lgVars, vmVars, gbVars, nmVars>>
    \/ LfChainContinue /\ UNCHANGED <<ltVars, lgVars, vmVars, gbVars, nmVars>>
    \/ LfEndModule /\ UNCHANGED <<ltVars, lgVars, vmVars, gbVars, nmVars>>
    \/ LfReturnOk /\ UNCHANGED <<ltVars, lgVars, vmVars, gbVars, nmVars>>

SpecLinkFunctions == LfInit /\ [][LfNext]_vars

----------------------------------------------------------------------------
(* Claims about link_functions. *)

LfOk == "ok" \in DOMAIN lf_result

AstModuleIndexes == 0..(Len(named_ast_modules) - 1)

AstModuleAt(m) == named_ast_modules[m + 1].module

\* the location that module m exports under `name`, as a one-element set
\* (empty when m has no function export of that name)
ExportedLocation(m, name) ==
    LET found == get_ast_module_function_index_by_export_name(AstModuleAt(m), name)
    IN IF IsSome(found)
       THEN {[function_index |-> Unwrap(found),
              location |-> function_locations_list[m + 1][Unwrap(found) + 1]]}
       ELSE {}

\* no native module has the name of AST module m, so that the name stands
\* for m (lines 461-486: the native modules are looked up first)
NamesAstModule(m) ==
    \A n \in 1..Len(native_modules) : native_modules[n].name # named_ast_modules[m + 1].name

\* the re-export chains a -> b -> c of the claim: import i of module a names
\* module b, whose export of that name is b's own import (index eb.function_index)
\* naming module c, whose export of that name is an internal function of c
ReexportChains ==
    {q \in AstModuleIndexes \X {0, 1} \X AstModuleIndexes \X {0, 1}
           \X AstModuleIndexes \X {0, 1, 2} :
        LET a == q[1]  i == q[2]  b == q[3]  fb == q[4]  c == q[5]  fc == q[6]
            la == function_locations_list[a + 1]
        IN /\ i < Len(la)
           /\ NamesAstModule(b)
           /\ NamesAstModule(c)
           /\ la[i + 1].kind = "Import"
           /\ la[i + 1].module_name = named_ast_modules[b + 1].name
           /\ \E eb \in ExportedLocation(b, la[i + 1].function_name) :
                /\ eb.function_index = fb
                /\ eb.location.kind = "Import"
                /\ eb.location.module_name = named_ast_modules[c + 1].name
                /\ \E ec \in ExportedLocation(c, eb.location.function_name) :
                     /\ ec.function_index = fc
                     /\ ec.location.kind = "Internal"}

\* C1: when link_functions returns Ok, for every chain "a imports x from b, b
\* imports x from c and re-exports it, c defines x", the FunctionItem stored
\* for a's import and the one stored for b's import both equal the
\* FunctionItem stored for x in c's own list, and the importer's declared
\* function type equals the type of c's function; a, b, c range over all
\* positions of the three modules in the input list.
C1_ReexportTransitivity ==
    LfOk =>
      \A q \in ReexportChains :
        LET items == lf_result.ok
            own == items[q[5] + 1][q[6] + 1]
        IN /\ items[q[1] + 1][q[2] + 1] = own
           /\ items[q[3] + 1][q[4] + 1] = own
           /\ own.kind = "Normal"
           /\ own.vm_module_index = q[5]
           /\ AstModuleAt(q[1]).type_items[
                 function_locations_list[q[1] + 1][q[2] + 1].type_index + 1]
              = AstModuleAt(q[5]).type_items[own.type_index + 1]

\* a link that succeeded with a chain through three different modules whose
\* importer comes first in the input list and whose definer comes last
C1_Witness ==
    /\ LfOk
    /\ \E q \in ReexportChains : q[1] = 0 /\ q[3] = 1 /\ q[5] = 2

TotalFunctionCount ==
    LET RECURSIVE SumLen(_)
        SumLen(k) == IF k = 0 THEN 0
                     ELSE SumLen(k - 1) + Len(function_locations_list[k])
        RECURSIVE SumNative(_)
        SumNative(k) == IF k = 0 THEN 0
                        ELSE SumNative(k - 1) + Len(native_modules[k].function_items)
    IN SumLen(Len(named_ast_modules)) + SumNative(Len(native_modules))

\* C2: following one function import chain takes at most as many loop
\* iterations as there are functions across all modules (so that a cyclic
\* chain ends, with an error, instead of going round forever).
C2_ChainBounded == chain_steps <= TotalFunctionCount

\* where the chain of imports that starts at (module_name, function_name)
\* ends, following at most `fuel` re-exports: a native function, an internal
\* function of an AST module, or the link that is missing
RECURSIVE FollowChain(_, _, _)
FollowChain(module_name, function_name, fuel) ==
    LET natives == {n \in 0..(Len(native_modules) - 1) : native_modules[n + 1].name = module_name}
        asts == {m \in AstModuleIndexes : named_ast_modules[m + 1].name = module_name}
    IN IF natives # {}
       THEN LET n == SetMin(natives)
                native_module == native_modules[n + 1]
                fs == {f \in 0..(Len(native_module.function_items) - 1) :
                          native_module.function_items[f + 1].name = function_name}
            IN IF fs = {}
               THEN [kind |-> "NativeFunctionNotFound",
                     module_name |-> module_name, item_name |-> function_name]
               ELSE [kind |-> "Native", module_index |-> n, function_index |-> SetMin(fs),
                     function_type |-> native_module.function_types[
                         native_module.function_items[SetMin(fs) + 1].type_index + 1],
                     module_name |-> module_name, item_name |-> function_name]
       ELSE IF asts = {}
       THEN [kind |-> "ModuleNotFound", module_name |-> module_name, item_name |-> ""]
       ELSE LET m == SetMin(asts)
                exported == ExportedLocation(m, function_name)
            IN IF exported = {}
               THEN [kind |-> "FunctionNotFound",
                     module_name |-> module_name, item_name |-> function_name]
               ELSE LET e == CHOOSE e \in exported : TRUE
                    IN IF e.location.kind = "Internal"
                       THEN [kind |-> "Normal", module_index |-> m,
                             function_index |-> e.function_index,
                             function_type |-> AstModuleAt(m).type_items[e.location.type_index + 1],
                             module_name |-> module_name, item_name |-> function_name]
                       ELSE IF fuel = 0
                       THEN [kind |-> "Cycle", module_name |-> module_name,
                             item_name |-> function_name]
                       ELSE FollowChain(e.location.module_name,
                                        e.location.function_name, fuel - 1)

\* the number of function imports of AST module m
ImportCount(m) == Len(get_ast_module_import_function_locations(AstModuleAt(m)))

\* where import i of AST module m ends; a chain that is longer than the
\* number of function imports of all modules goes round a cycle
ImportTarget(m, i) ==
    LET location == get_ast_module_import_function_locations(AstModuleAt(m))[i + 1]
    IN FollowChain(location.module_name, location.function_name, TotalFunctionCount)

\* the function type import i of AST module m declares
DeclaredFunctionType(m, i) ==
    AstModuleAt(m).type_items[
        get_ast_module_import_function_locations(AstModuleAt(m))[i + 1].type_index + 1]

\* the type of the function a FunctionItem stands for
FunctionItemType(item) ==
    IF item.kind = "Native"
    THEN native_modules[item.native_module_index + 1].function_types[item.type_index + 1]
    ELSE AstModuleAt(item.vm_module_index).type_items[item.type_index + 1]

\* the function lists built so far: the finished modules and the current one
ItemsSoFar ==
    IF lf_pc = "done" /\ LfOk THEN lf_result.ok
    ELSE IF ast_module_index < Len(named_ast_modules)
         THEN Append(function_items_list, function_items)
         ELSE function_items_list

LfFailed == lf_pc = "done" /\ ~LfOk

\* C16: every function import that link_functions has bound (all of them
\* when it returns Ok) is bound to the function its chain of imports ends at,
\* native or internal, directly or through re-exports, and the function type
\* the importer declares equals the type of that function; and the error is
\* ImportedFunctionTypeMismatch exactly when the chain of the import it
\* stopped at ends at a function of a different type
C16_ImportedTypeEqualsBoundType ==
    /\ \A m \in 0..(Len(ItemsSoFar) - 1) :
          \A i \in 0..(ImportCount(m) - 1) :
             i < Len(ItemsSoFar[m + 1]) =>
                LET item == ItemsSoFar[m + 1][i + 1]
                    target == ImportTarget(m, i)
                IN /\ target.kind = item.kind
                   /\ target.function_index = item.function_index
                   /\ target.function_type = FunctionItemType(item)
                   /\ DeclaredFunctionType(m, i) = FunctionItemType(item)
    /\ LfFailed =>
          LET target == ImportTarget(ast_module_index, function_index)
          IN (lf_result.err = "ImportedFunctionTypeMismatch")
             <=> /\ target.kind \in {"Native", "Normal"}
                 /\ target.function_type # DeclaredFunctionType(ast_module_index, function_index)

\* the link stops with ImportedFunctionTypeMismatch at an import of the third
\* module after an import of the first module was bound, through a
\* re-export of the second, to a native function
C16_Witness ==
    /\ LfFailed
    /\ lf_result.err = "ImportedFunctionTypeMismatch"
    /\ ast_module_index = 2
    /\ ImportCount(0) = 1
    /\ function_items_list[1][1].kind = "Native"
    /\ function_locations_list[1][1].module_name = "B"

\* C17: a link that stops at an import whose chain meets a module name that
\* no native or AST module has fails with ModuleNotFound, at a native module
\* without a function of the name with NativeFunctionNotFound, at an AST
\* module without a function export of the name with FunctionNotFound, each
\* naming the module and the function it looked for, and these errors come
\* from nothing else; the result is then the error alone, without a function
\* list, and a link that returns Ok met none of them
C17_NotFoundErrors ==
    /\ LfFailed =>
          LET target == ImportTarget(ast_module_index, function_index)
          IN /\ \A k \in {"ModuleNotFound", "NativeFunctionNotFound", "FunctionNotFound"} :
                   (lf_result.err = k) <=> (target.kind = k)
             /\ target.kind \notin {"Native", "Normal"} =>
                   /\ lf_result.module_name = target.module_name
                   /\ lf_result.item_name = target.item_name
             /\ DOMAIN lf_result = {"err", "module_name", "item_name"}
    /\ (lf_pc = "done" /\ LfOk) =>
          \A m \in AstModuleIndexes :
             \A i \in 0..(ImportCount(m) - 1) : ImportTarget(m, i).kind \in {"Native", "Normal"}

\* the link stops with NativeFunctionNotFound at the end of a chain through
\* a re-export, after the lists of two modules were finished
C17_Witness ==
    /\ LfFailed
    /\ lf_result.err = "NativeFunctionNotFound"
    /\ ast_module_index = 2
    /\ chain_steps = 2
    /\ Len(function_items_list) = 2

\* C18: in the list link_functions returns for an AST module the bindings of
\* its function imports come first, in the order the imports are declared,
\* and the internal functions follow: the item at (number of function
\* imports + k) is the Normal item of internal function k of that module,
\* its function_index is its position and its vm_module_index the module's
\* own index
C18_ImportsBeforeInternals ==
    (lf_pc = "done" /\ LfOk) =>
      \A m \in AstModuleIndexes :
        LET items == lf_result.ok[m + 1]
            ast_module == AstModuleAt(m)
            internal_count == Len(ast_module.internal_function_to_type_index_list)
        IN /\ Len(items) = ImportCount(m) + internal_count
           /\ \A i \in 0..(ImportCount(m) - 1) :
                 /\ items[i + 1].kind = ImportTarget(m, i).kind
                 /\ items[i + 1].function_index = ImportTarget(m, i).function_index
                 /\ items[i + 1].kind = "Normal" =>
                       items[i + 1].vm_module_index = ImportTarget(m, i).module_index
                 /\ items[i + 1].kind = "Native" =>
                       items[i + 1].native_module_index = ImportTarget(m, i).module_index
           /\ \A k \in 0..(internal_count - 1) :
                 LET item == items[ImportCount(m) + k + 1]
                 IN /\ item.kind = "Normal"
                    /\ item.internal_function_index = k
                    /\ item.function_index = ImportCount(m) + k
                    /\ item.vm_module_index = m
                    /\ item.type_index = ast_module.internal_function_to_type_index_list[k + 1]

\* a link that returned Ok for a module with two imports bound to a native
\* function and to a function of another module, followed by its own function
C18_Witness ==
    /\ lf_pc = "done"
    /\ LfOk
    /\ \E m \in AstModuleIndexes :
          /\ ImportCount(m) = 2
          /\ Len(lf_result.ok[m + 1]) = 3
          /\ lf_result.ok[m + 1][1].kind = "Normal"
          /\ lf_result.ok[m + 1][1].vm_module_index # m
          /\ lf_result.ok[m + 1][2].kind = "Native"
          /\ lf_result.ok[m + 1][3].function_index = 2

----------------------------------------------------------------------------
(* link_tables, linker.rs 522-663, and its twin link_memorys, linker.rs      *)
(* 675-823: the same code over ImportDescriptor::MemoryType,                 *)
(* ExportDescriptor::MemoryBlockIndex and ast_module.memory_blocks.          *)
(* resource_kind says which of the two runs.                                 *)

Limit(min, max) == [min |-> min, max |-> max]

\* the type of a table or memory: element type and limits, or limits
ResourceType(limit) ==
    IF resource_kind = "table"
    THEN [element_type |-> "funcref", limit |-> limit]
    ELSE [limit |-> limit]

\* VMTable::new_by_page_range(0, 0) / VMMemory::new_by_page_range(0, 0), lines 552 and 706
DefaultResourceType == ResourceType(Limit(0, Some(0)))

ImportDescriptorKind == IF resource_kind = "table" THEN "TableType" ELSE "MemoryType"

ExportDescriptorKind == IF resource_kind = "table" THEN "TableIndex" ELSE "MemoryBlockIndex"

\* ast_module.tables / ast_module.memory_blocks
ResourceDefinitions(ast_module) ==
    IF resource_kind = "table" THEN ast_module.tables ELSE ast_module.memory_blocks

\* lines 539-542 / 693-696 and 591-601 / 745-755: the first import of the kind
find_resource_import(ast_module) ==
    LET found == FirstIndex({i \in 1..Len(ast_module.import_items) :
                    ast_module.import_items[i].import_descriptor.kind = ImportDescriptorKind})
    IN IF IsSome(found) THEN Some(ast_module.import_items[Unwrap(found) + 1]) ELSE None

\* the instance taken from the last definition of the module
NewInstance_LastDefinition(ast_module) ==
    IF ResourceDefinitions(ast_module) # <<>>
    THEN [type |-> ResourceDefinitions(ast_module)[Len(ResourceDefinitions(ast_module))]]
    ELSE [type |-> DefaultResourceType]

\* the instance a module without import gets, lines 547-553 / 701-707
NewInstance(ast_module) ==
    IF ResourceDefinitions(ast_module) # <<>>
    THEN [type |-> ResourceDefinitions(ast_module)[1]]
    ELSE [type |-> DefaultResourceType]

\* the first for loop, lines 532-560 / 686-714, up to module k (exclusive, 0-based)
RECURSIVE CreateInstances(_)
CreateInstances(k) ==
    IF k = 0
    THEN [instances |-> <<>>, map |-> [i \in 1..Len(named_ast_modules) |-> None]]
    ELSE
      LET before == CreateInstances(k - 1)
          ast_module == named_ast_modules[k].module
      IN IF find_resource_import(ast_module) = None
         THEN [instances |-> Append(before.instances, NewInstance(ast_module)),
               map |-> [before.map EXCEPT ![k] = Some(Len(before.instances))]]
         ELSE before

\* named_ast_modules.iter().enumerate().find(name), lines 603-610 / 757-764
find_ast_module_index_by_name(name) ==
    FirstIndex({i \in 1..Len(named_ast_modules) : named_ast_modules[i].name = name})

\* find_map over export_items, lines 612-624 / 766-782
find_resource_export_index(ast_module, name) ==
    LET found == FirstIndex({i \in 1..Len(ast_module.export_items) :
                    /\ ast_module.export_items[i].export_descriptor.kind = ExportDescriptorKind
                    /\ ast_module.export_items[i].name = name})
    IN IF IsSome(found)
       THEN Some(ast_module.export_items[Unwrap(found) + 1].export_descriptor.index)
       ELSE None

ResourceErrorName(kind) ==
    IF resource_kind = "table"
    THEN CASE kind = "NotFound" -> "TableNotFound"
           [] kind = "Multiple" -> "UnsupportedMultipleTable"
           [] kind = "TypeMismatch" -> "ImportedTableTypeMismatch"
    ELSE CASE kind = "NotFound" -> "MemoryBlockFound"
           [] kind = "Multiple" -> "UnsupportedMultipleMemoryBlock"
           [] kind = "TypeMismatch" -> "ImportedMemoryBlockTypeMismatch"

\* the lookup without the test of the export index
ResolveLookup_AnyExportIndex(module_index) ==
    LET import_item == Unwrap(find_resource_import(named_ast_modules[module_index + 1].module))
        target_module_name_ == import_item.module_name
        target_export_item_name == import_item.item_name
        target == find_ast_module_index_by_name(target_module_name_)
    IN IF ~IsSome(target)
       THEN [kind |-> "Err", err |-> LinkError("ModuleNotFound", target_module_name_, "")]
       ELSE
         LET target_ast_module_index == Unwrap(target)
             export == find_resource_export_index(
                          named_ast_modules[target_ast_module_index + 1].module,
                          target_export_item_name)
         IN IF ~IsSome(export)
            THEN [kind |-> "Err",
                  err |-> LinkError(ResourceErrorName("NotFound"),
                                    target_module_name_, target_export_item_name)]
            ELSE [kind |-> "Target",
                  target_ast_module_index |-> target_ast_module_index,
                  target_type |-> import_item.import_descriptor.type,
                  module_name |-> target_module_name_,
                  item_name |-> target_export_item_name]

\* resolve_ast_module_table up to the read of the map, lines 589-632 / 743-791
ResolveLookup(module_index) ==
    LET import_item == Unwrap(find_resource_import(named_ast_modules[module_index + 1].module))
        target_module_name_ == import_item.module_name
        target_export_item_name == import_item.item_name
        target == find_ast_module_index_by_name(target_module_name_)
    IN IF ~IsSome(target)
       THEN [kind |-> "Err", err |-> LinkError("ModuleNotFound", target_module_name_, "")]
       ELSE
         LET target_ast_module_index == Unwrap(target)
             export == find_resource_export_index(
                          named_ast_modules[target_ast_module_index + 1].module,
                          target_export_item_name)
         IN IF ~IsSome(export)
            THEN [kind |-> "Err",
                  err |-> LinkError(ResourceErrorName("NotFound"),
                                    target_module_name_, target_export_item_name)]
            ELSE IF Unwrap(export) # 0
            THEN [kind |-> "Err", err |-> LinkError(ResourceErrorName("Multiple"), "", "")]
            ELSE [kind |-> "Target",
                  target_ast_module_index |-> target_ast_module_index,
                  target_type |-> import_item.import_descriptor.type,
                  module_name |-> target_module_name_,
                  item_name |-> target_export_item_name]

\* what the caller takes as target_instance_table_index from a returned callee,
\* lines 634-645 / 793-805: the callee's Ok value, which is (line 662 / 822)
\* the callee's target_ast_module_index
ReturnValue(module_index) == ResolveLookup(module_index).target_ast_module_index

\* the tail of resolve_ast_module_table, lines 647-662 / 807-822, for the
\* call on top of the stack with target_instance_table_index = index
LtFinishCall(index) ==
    LET module_index == lt_call_stack[Len(lt_call_stack)]
        lookup == ResolveLookup(module_index)
    IN IF index >= Len(instance_tables)
       THEN \* instance_tables[index] panics: index out of bounds
            /\ lt_result' = [panic |-> "IndexOutOfBounds", index |-> index]
            /\ lt_pc' = "done"
            /\ UNCHANGED <<module_to_table_index_list, lt_call_stack, lt_returned,
                           lt_scan_index>>
       ELSE IF instance_tables[index + 1].type # lookup.target_type
       THEN /\ lt_result' = LinkError(ResourceErrorName("TypeMismatch"),
                                      lookup.module_name, lookup.item_name)
            /\ lt_pc' = "done"
            /\ UNCHANGED <<module_to_table_index_list, lt_call_stack, lt_returned,
                           lt_scan_index>>
       ELSE /\ module_to_table_index_list' =
                  [module_to_table_index_list EXCEPT ![module_index + 1] = Some(index)]
            /\ lt_call_stack' = SubSeq(lt_call_stack, 1, Len(lt_call_stack) - 1)
            /\ lt_returned' = ReturnValue(module_index)
            /\ IF Len(lt_call_stack) = 1
               THEN \* back in link_tables, line 570: the value is dropped
                    /\ lt_pc' = "scan"
                    /\ lt_scan_index' = lt_scan_index + 1
               ELSE /\ lt_pc' = "returned"
                    /\ UNCHANGED lt_scan_index
            /\ UNCHANGED lt_result

\* lines 527-560 / 680-714: the first loop creates the instances of the
\* modules that import none
LtCreateInstances ==
    /\ lt_pc = "create"
    /\ instance_tables' = CreateInstances(Len(named_ast_modules)).instances
    /\ module_to_table_index_list' = CreateInstances(Len(named_ast_modules)).map
    /\ lt_scan_index' = 0
    /\ lt_pc' = "scan"
    /\ UNCHANGED <<resource_kind, lt_call_stack, lt_returned, lt_result>>

\* lines 563-564 / 717-718: a module that is already mapped
LtScanSkip ==
    /\ lt_pc = "scan"
    /\ lt_scan_index < Len(named_ast_modules)
    /\ module_to_table_index_list[lt_scan_index + 1] # None
    /\ lt_scan_index' = lt_scan_index + 1
    /\ UNCHANGED <<resource_kind, lt_pc, instance_tables, module_to_table_index_list,
                   lt_call_stack, lt_returned, lt_result>>

\* lines 564-570 / 718-724: resolve_ast_module_table is called for the module
LtScanCall ==
    /\ lt_pc = "scan"
    /\ lt_scan_index < Len(named_ast_modules)
    /\ module_to_table_index_list[lt_scan_index + 1] = None
    /\ lt_call_stack' = <<lt_scan_index>>
    /\ lt_pc' = "call"
    /\ UNCHANGED <<resource_kind, instance_tables, module_to_table_index_list,
                   lt_scan_index, lt_returned, lt_result>>

\* lines 603-630 / 757-788: a lookup fails; ? carries the error up every frame
LtResolveError ==
    /\ lt_pc = "call"
    /\ ResolveLookup(lt_call_stack[Len(lt_call_stack)]).kind = "Err"
    /\ lt_result' = ResolveLookup(lt_call_stack[Len(lt_call_stack)]).err
    /\ lt_pc' = "done"
    /\ UNCHANGED <<resource_kind, instance_tables, module_to_table_index_list,
                   lt_scan_index, lt_call_stack, lt_returned>>

\* lines 632-635 / 790-795 then 647-662 / 807-822: the target is mapped already
LtResolveMapped ==
    /\ lt_pc = "call"
    /\ LET lookup == ResolveLookup(lt_call_stack[Len(lt_call_stack)])
       IN /\ lookup.kind = "Target"
          /\ module_to_table_index_list[lookup.target_ast_module_index + 1] # None
          /\ LtFinishCall(Unwrap(module_to_table_index_list[lookup.target_ast_module_index + 1]))
    /\ UNCHANGED <<resource_kind, instance_tables>>

\* lines 636-645 / 796-805: the target is itself an unresolved importer, recurse
LtResolveRecurse ==
    /\ lt_pc = "call"
    /\ LET lookup == ResolveLookup(lt_call_stack[Len(lt_call_stack)])
       IN /\ lookup.kind = "Target"
          /\ module_to_table_index_list[lookup.target_ast_module_index + 1] = None
          /\ IF Len(lt_call_stack) < MaxCallDepth
             THEN /\ lt_call_stack' = Append(lt_call_stack, lookup.target_ast_module_index)
                  /\ UNCHANGED <<lt_pc, lt_result>>
             ELSE \* the recursion has used up the machine stack
                  /\ lt_result' = [panic |-> "StackOverflow"]
                  /\ lt_pc' = "done"
                  /\ UNCHANGED lt_call_stack
    /\ UNCHANGED <<resource_kind, instance_tables, module_to_table_index_list,
                   lt_scan_index, lt_returned>>

\* lines 644-662 / 804-822: the recursive call returned Ok(value) and the
\* caller goes on with target_instance_table_index = value
LtResolveResume ==
    /\ lt_pc = "returned"
    /\ LtFinishCall(lt_returned)
    /\ UNCHANGED <<resource_kind, instance_tables>>

\* lines 575-580 / 729-734
LtReturnOk ==
    /\ lt_pc = "scan"
    /\ lt_scan_index = Len(named_ast_modules)
    /\ lt_result' = [ok |-> [instances |-> instance_tables,
                             list |-> [i \in 1..Len(module_to_table_index_list) |->
                                          Unwrap(module_to_table_index_list[i])]]]
    /\ lt_pc' = "done"
    /\ UNCHANGED <<resource_kind, instance_tables, module_to_table_index_list,
                   lt_scan_index, lt_call_stack, lt_returned>>

----------------------------------------------------------------------------
(* The inputs of link_tables / link_memorys: four AST modules named A..D.    *)

ResourceModuleNames == <<"A", "B", "C", "D">>

RT1(kind) == IF kind = "table"
             THEN [element_type |-> "funcref", limit |-> Limit(1, None)]
             ELSE [limit |-> Limit(1, None)]

RT2(kind) == IF kind = "table"
             THEN [element_type |-> "funcref", limit |-> Limit(1, Some(2))]
             ELSE [limit |-> Limit(1, Some(2))]

ResourceImport(kind, module_name, type) ==
    [module_name |-> module_name, item_name |-> "t",
     import_descriptor |->
        [kind |-> IF kind = "table" THEN "TableType" ELSE "MemoryType", type |-> type]]

ResourceExport(kind, index) ==
    [name |-> "t",
     export_descriptor |->
        [kind |-> IF kind = "table" THEN "TableIndex" ELSE "MemoryBlockIndex",
         index |-> index]]

ResourceModule(kind, import_items, export_items, definitions) ==
    [type_items |-> <<>>,
     import_items |-> import_items,
     export_items |-> export_items,
     internal_function_to_type_index_list |-> <<>>,
     code_items |-> <<>>,
     tables |-> IF kind = "table" THEN definitions ELSE <<>>,
     memory_blocks |-> IF kind = "memory" THEN definitions ELSE <<>>,
     global_items |-> <<>>]

OtherKind(kind) == IF kind = "table" THEN "memory" ELSE "table"

LtModuleChoices(kind) ==
    \* modules that import no resource of the kind
    {ResourceModule(kind, <<>>, <<>>, <<>>),
     ResourceModule(kind, <<>>, <<ResourceExport(kind, 0)>>, <<RT1(kind)>>),
     ResourceModule(kind, <<>>, <<ResourceExport(kind, 0)>>, <<RT1(kind), RT2(kind)>>),
     ResourceModule(kind, <<>>, <<ResourceExport(kind, 1)>>, <<RT1(kind), RT2(kind)>>),
     \* a module whose import and export are of the other kind
     ResourceModule(kind, <<ResourceImport(OtherKind(kind), "A", RT1(OtherKind(kind)))>>,
                    <<ResourceExport(OtherKind(kind), 0)>>, <<>>)}
    \cup
    \* importers, which re-export what they import
    {ResourceModule(kind, <<ResourceImport(kind, q[1], q[2])>>,
                    <<ResourceExport(kind, 0)>>, <<>>) :
        q \in ({"A", "B", "C", "D"} \X {RT1(kind), RT2(kind)}) \cup {<<"Z", RT1(kind)>>}}

LtInit ==
    /\ resource_kind \in {"table", "memory"}
    /\ native_modules = <<>>
    /\ named_ast_modules \in
         {[i \in 1..Len(ResourceModuleNames) |->
              [name |-> ResourceModuleNames[i], module |-> m[i]]] :
            m \in [1..Len(ResourceModuleNames) -> LtModuleChoices(resource_kind)]}
    /\ LfIdle
    /\ LgIdle
    /\ VmIdle
    /\ GbIdle
    /\ NmIdle
    /\ lt_pc = "create"
    /\ instance_tables = <<>>
    /\ module_to_table_index_list = <<>>
    /\ lt_scan_index = 0
    /\ lt_call_stack = <<>>
    /\ lt_returned = 0
    /\ lt_result = [running |-> TRUE]

LtNext ==
    \/ LtCreateInstances /\ UNCHANGED <<inputVars, lfVars, lgVars, vmVars, gbVars, nmVars>>
    \/ LtScanSkip /\ UNCHANGED <<inputVars, lfVars, lgVars, vmVars, gbVars, nmVars>>
    \/ LtScanCall /\ UNCHANGED <<inputVars, lfVars, lgVars, vmVars, gbVars, nmVars>>
    \/ LtResolveError /\ UNCHANGED <<inputVars, lfVars, lgVars, vmVars, gbVars, nmVars>>
    \/ LtResolveMapped /\ UNCHANGED <<inputVars, lfVars, lgVars, vmVars, gbVars, nmVars>>
    \/ LtResolveRecurse /\ UNCHANGED <<inputVars, lfVars, lgVars, vmVars, gbVars, nmVars>>
    \/ LtResolveResume /\ UNCHANGED <<inputVars, lfVars, lgVars, vmVars, gbVars, nmVars>>
    \/ LtReturnOk /\ UNCHANGED <<inputVars, lfVars, lgVars, vmVars, gbVars, nmVars>>

SpecLinkTables == LtInit /\ [][LtNext]_vars

----------------------------------------------------------------------------
(* Claims about link_tables / link_memorys. *)

LtOk == "ok" \in DOMAIN lt_result

ResourceImporters ==
    {m \in AstModuleIndexes : find_resource_import(AstModuleAt(m)) # None}

\* C3: after link_tables (link_memorys) returns Ok, every module that imports
\* its table (memory) is mapped to the same instance index as the module it
\* imports from, whatever the order of the modules and the length of the
\* re-export chain.
C3_ImportsAliased ==
    LtOk =>
      \A a \in ResourceImporters :
        lt_result.ok.list[a + 1]
          = lt_result.ok.list[ResolveLookup(a).target_ast_module_index + 1]

\* C5: a cyclic import is detected: the resolver is never entered for a
\* module whose resolution is already in progress, so the recursion is
\* bounded by the number of modules and ends with an error.
C5_CycleDetected ==
    /\ \A i, j \in 1..Len(lt_call_stack) : i < j => lt_call_stack[i] # lt_call_stack[j]
    /\ ~("panic" \in DOMAIN lt_result /\ lt_result.panic = "StackOverflow")

\* C6: a module that defines more than one table (memory) is rejected: no
\* instance is created for it from its first definition and the link does
\* not return Ok.
C6_MultipleDefinitionsRejected ==
    \A m \in AstModuleIndexes :
      Len(ResourceDefinitions(AstModuleAt(m))) > 1 =>
        /\ ~LtOk
        /\ module_to_table_index_list # <<>> => module_to_table_index_list[m + 1] = None

\* the module whose instance importer m shares: the module at the end of
\* its chain of imports, which imports none (-1 when the chain breaks or is
\* longer than `fuel`)
RECURSIVE ResourceDefiner(_, _)
ResourceDefiner(m, fuel) ==
    IF m \notin ResourceImporters THEN m
    ELSE IF fuel = 0 \/ ResolveLookup(m).kind # "Target" THEN -1
    ELSE ResourceDefiner(ResolveLookup(m).target_ast_module_index, fuel - 1)

\* the type of the instance importer m shares
SharedInstanceType(m) ==
    NewInstance(AstModuleAt(ResourceDefiner(m, Len(named_ast_modules)))).type

DeclaredResourceType(m) == Unwrap(find_resource_import(AstModuleAt(m))).import_descriptor.type

LtTypeMismatch == "err" \in DOMAIN lt_result /\ lt_result.err = ResourceErrorName("TypeMismatch")

\* C19: when link_tables (link_memorys) returns Ok, the type every importer
\* declares equals the type of the instance it shares, that of the module
\* its chain of imports ends at, for every module of a re-export chain; and
\* the link fails with ImportedTableTypeMismatch
\* (ImportedMemoryBlockTypeMismatch) only for an importer whose declared
\* type differs from the type of that instance
C19_ImportTypeEqualsInstanceType ==
    /\ LtOk =>
         \A a \in ResourceImporters : DeclaredResourceType(a) = SharedInstanceType(a)
    /\ LtTypeMismatch =>
         LET a == lt_call_stack[Len(lt_call_stack)]
         IN DeclaredResourceType(a) # SharedInstanceType(a)

----------------------------------------------------------------------------
(* link_global_variables, linker.rs 831-1010 *)

GlobalType(value_type, mutable) == [value_type |-> value_type, mutable |-> mutable]

Value(type, value) == [type |-> type, value |-> value]

\* decode_constant_expression and VM::get_constant_instruction_value (lines
\* 861-863) for an initialiser that is one `t.const v` followed by end
get_constant_instruction_value(initialize_instruction_items) ==
    LET ins == initialize_instruction_items[1]
    IN CASE ins.op = "I32Const" -> Value("I32", ins.value)
         [] ins.op = "I64Const" -> Value("I64", ins.value)
         [] ins.op = "F32Const" -> Value("F32", ins.value)
         [] ins.op = "F64Const" -> Value("F64", ins.value)

IsGlobalImport(item) == item.import_descriptor.kind = "GlobalType"

\* lines 935-945: the global imports of a module, in declaration order
global_imports(ast_module) == SelectSeq(ast_module.import_items, IsGlobalImport)

\* a variant without the type test of lines 866-873
RECURSIVE CreateModuleGlobals_NoTypeCheck(_, _, _)
CreateModuleGlobals_NoTypeCheck(ast_module, k, state) ==
    IF k = 0 THEN state
    ELSE
      LET before == CreateModuleGlobals_NoTypeCheck(ast_module, k - 1, state)
          global_item == ast_module.global_items[k]
          value == get_constant_instruction_value(global_item.initialize_instruction_items)
      IN [before EXCEPT
            !.instances = Append(@, [global_type |-> global_item.global_type,
                                     value |-> value]),
            !.item = Append(@, Some(Len(before.instances)))]

\* lines 857-882 for the global items 1..k of one module, given the instances
\* created so far; err is set by the first initialiser of the wrong type
RECURSIVE CreateModuleGlobals(_, _, _)
CreateModuleGlobals(ast_module, k, state) ==
    IF k = 0 THEN state
    ELSE
      LET before == CreateModuleGlobals(ast_module, k - 1, state)
          global_item == ast_module.global_items[k]
          value == get_constant_instruction_value(global_item.initialize_instruction_items)
      IN IF before.err # None THEN before
         ELSE IF value.type # global_item.global_type.value_type
         THEN [before EXCEPT !.err =
                 Some([err |-> "ConstantExpressionValueTypeMismatch",
                       expected |-> global_item.global_type.value_type,
                       actual |-> value.type])]
         ELSE [before EXCEPT
                 !.instances = Append(@, [global_type |-> global_item.global_type,
                                          value |-> value]),
                 !.item = Append(@, Some(Len(before.instances)))]

\* the first for loop with the slots of the internal globals put before the
\* slots of the imports
RECURSIVE CreateGlobals_InternalsFirst(_)
CreateGlobals_InternalsFirst(k) ==
    IF k = 0 THEN [instances |-> <<>>, map |-> <<>>, err |-> None]
    ELSE
      LET before == CreateGlobals_InternalsFirst(k - 1)
          ast_module == named_ast_modules[k].module
          import_global_variable_count == Len(global_imports(ast_module))
          start == [instances |-> before.instances, item |-> <<>>, err |-> None]
          done == CreateModuleGlobals(ast_module, Len(ast_module.global_items), start)
      IN IF before.err # None THEN before
         ELSE [instances |-> done.instances,
               map |-> Append(before.map,
                              done.item \o [i \in 1..import_global_variable_count |-> None]),
               err |-> done.err]

\* the first for loop, lines 840-885, for the modules 1..k
RECURSIVE CreateGlobals(_)
CreateGlobals(k) ==
    IF k = 0 THEN [instances |-> <<>>, map |-> <<>>, err |-> None]
    ELSE
      LET before == CreateGlobals(k - 1)
          ast_module == named_ast_modules[k].module
          import_global_variable_count == Len(global_imports(ast_module))
          start == [instances |-> before.instances,
                    item |-> [i \in 1..import_global_variable_count |-> None],
                    err |-> None]
          done == CreateModuleGlobals(ast_module, Len(ast_module.global_items), start)
      IN IF before.err # None THEN before
         ELSE [instances |-> done.instances,
               map |-> Append(before.map, done.item),
               err |-> done.err]

\* find_map over export_items, lines 956-972
find_global_export_index(ast_module, name) ==
    LET found == FirstIndex({i \in 1..Len(ast_module.export_items) :
                    /\ ast_module.export_items[i].export_descriptor.kind = "GlobalItemIndex"
                    /\ ast_module.export_items[i].name = name})
    IN IF IsSome(found)
       THEN Some(ast_module.export_items[Unwrap(found) + 1].export_descriptor.index)
       ELSE None

\* resolve_ast_module_global_variable up to the read of the map, lines 933-975
GlobalLookup(module_index, slot_index) ==
    LET import_item == global_imports(named_ast_modules[module_index + 1].module)[slot_index + 1]
        target_module_name_ == import_item.module_name
        target_export_item_name == import_item.item_name
        target == find_ast_module_index_by_name(target_module_name_)
    IN IF ~IsSome(target)
       THEN [kind |-> "Err", err |-> LinkError("ModuleNotFound", target_module_name_, "")]
       ELSE
         LET target_ast_module_index == Unwrap(target)
             export == find_global_export_index(
                          named_ast_modules[target_ast_module_index + 1].module,
                          target_export_item_name)
         IN IF ~IsSome(export)
            THEN [kind |-> "Err",
                  err |-> LinkError("GlobalVariableNotFound",
                                    target_module_name_, target_export_item_name)]
            ELSE [kind |-> "Target",
                  target_ast_module_index |-> target_ast_module_index,
                  target_slot |-> Unwrap(export),
                  target_type |-> import_item.import_descriptor.type,
                  module_name |-> target_module_name_,
                  item_name |-> target_export_item_name]

\* line 1009: Ok(target_ast_module_index)
GlobalReturnValue(module_index, slot_index) ==
    GlobalLookup(module_index, slot_index).target_ast_module_index

\* the tail of resolve_ast_module_global_variable, lines 992-1009, for the
\* call on top of the stack with target_instance_global_variable_index = index
LgFinishCall(index) ==
    LET frame == lg_call_stack[Len(lg_call_stack)]
        lookup == GlobalLookup(frame[1], frame[2])
    IN IF index >= Len(instance_global_variables)
       THEN \* instance_global_variables[index] panics: index out of bounds
            /\ lg_result' = [panic |-> "IndexOutOfBounds", index |-> index]
            /\ lg_pc' = "done"
            /\ UNCHANGED <<module_to_global_variables_list, lg_call_stack, lg_returned,
                           lg_scan_slot>>
       ELSE IF instance_global_variables[index + 1].global_type # lookup.target_type
       THEN /\ lg_result' = LinkError("ImportedGlobalVariableTypeMismatch",
                                      lookup.module_name, lookup.item_name)
            /\ lg_pc' = "done"
            /\ UNCHANGED <<module_to_global_variables_list, lg_call_stack, lg_returned,
                           lg_scan_slot>>
       ELSE /\ module_to_global_variables_list' =
                  [module_to_global_variables_list EXCEPT
                      ![frame[1] + 1][frame[2] + 1] = Some(index)]
            /\ lg_call_stack' = SubSeq(lg_call_stack, 1, Len(lg_call_stack) - 1)
            /\ lg_returned' = GlobalReturnValue(frame[1], frame[2])
            /\ IF Len(lg_call_stack) = 1
               THEN \* back in link_global_variables, line 908: the value is dropped
                    /\ lg_pc' = "scan"
                    /\ lg_scan_slot' = lg_scan_slot + 1
               ELSE /\ lg_pc' = "returned"
                    /\ UNCHANGED lg_scan_slot
            /\ UNCHANGED lg_result

\* lines 835-885: the first loop creates the internally defined globals
LgCreateInstances ==
    /\ lg_pc = "create"
    /\ CreateGlobals(Len(named_ast_modules)).err = None
    /\ instance_global_variables' = CreateGlobals(Len(named_ast_modules)).instances
    /\ module_to_global_variables_list' = CreateGlobals(Len(named_ast_modules)).map
    /\ lg_pc' = "scan"
    /\ UNCHANGED <<lg_scan_module, lg_scan_slot, lg_call_stack, lg_returned, lg_result>>

\* lines 866-873: an initialiser of the wrong type ends the link
LgCreateError ==
    /\ lg_pc = "create"
    /\ CreateGlobals(Len(named_ast_modules)).err # None
    /\ lg_result' = Unwrap(CreateGlobals(Len(named_ast_modules)).err)
    /\ lg_pc' = "done"
    /\ UNCHANGED <<instance_global_variables, module_to_global_variables_list,
                   lg_scan_module, lg_scan_slot, lg_call_stack, lg_returned>>

ScanModuleSlots == module_to_global_variables_list[lg_scan_module + 1]

\* lines 895-901: a slot that is mapped already
LgScanSkip ==
    /\ lg_pc = "scan"
    /\ lg_scan_module < Len(named_ast_modules)
    /\ lg_scan_slot < Len(ScanModuleSlots)
    /\ ScanModuleSlots[lg_scan_slot + 1] # None
    /\ lg_scan_slot' = lg_scan_slot + 1
    /\ UNCHANGED <<lg_pc, instance_global_variables, module_to_global_variables_list,
                   lg_scan_module, lg_call_stack, lg_returned, lg_result>>

\* lines 888-895: the slots of the module are done
LgScanNextModule ==
    /\ lg_pc = "scan"
    /\ lg_scan_module < Len(named_ast_modules)
    /\ lg_scan_slot = Len(ScanModuleSlots)
    /\ lg_scan_module' = lg_scan_module + 1
    /\ lg_scan_slot' = 0
    /\ UNCHANGED <<lg_pc, instance_global_variables, module_to_global_variables_list,
                   lg_call_stack, lg_returned, lg_result>>

\* lines 901-908: resolve_ast_module_global_variable is called for the slot
LgScanCall ==
    /\ lg_pc = "scan"
    /\ lg_scan_module < Len(named_ast_modules)
    /\ lg_scan_slot < Len(ScanModuleSlots)
    /\ ScanModuleSlots[lg_scan_slot + 1] = None
    /\ lg_call_stack' = <<(<<lg_scan_module, lg_scan_slot>>)>>
    /\ lg_pc' = "call"
    /\ UNCHANGED <<instance_global_variables, module_to_global_variables_list,
                   lg_scan_module, lg_scan_slot, lg_returned, lg_result>>

LgTopLookup ==
    GlobalLookup(lg_call_stack[Len(lg_call_stack)][1], lg_call_stack[Len(lg_call_stack)][2])

\* lines 947-972: a lookup fails; ? carries the error up every frame
LgResolveError ==
    /\ lg_pc = "call"
    /\ LgTopLookup.kind = "Err"
    /\ lg_result' = LgTopLookup.err
    /\ lg_pc' = "done"
    /\ UNCHANGED <<instance_global_variables, module_to_global_variables_list,
                   lg_scan_module, lg_scan_slot, lg_call_stack, lg_returned>>

\* lines 974-979 then 992-1009: the target slot is mapped already
LgResolveMapped ==
    /\ lg_pc = "call"
    /\ LgTopLookup.kind = "Target"
    /\ LET slot == module_to_global_variables_list[LgTopLookup.target_ast_module_index + 1]
                                                  [LgTopLookup.target_slot + 1]
       IN /\ slot # None
          /\ LgFinishCall(Unwrap(slot))
    /\ UNCHANGED <<instance_global_variables, lg_scan_module>>

\* lines 980-990: the target slot is itself an unresolved import, recurse
LgResolveRecurse ==
    /\ lg_pc = "call"
    /\ LgTopLookup.kind = "Target"
    /\ module_to_global_variables_list[LgTopLookup.target_ast_module_index + 1]
                                      [LgTopLookup.target_slot + 1] = None
    /\ IF Len(lg_call_stack) < MaxCallDepth
       THEN /\ lg_call_stack' =
                  Append(lg_call_stack,
                         <<LgTopLookup.target_ast_module_index, LgTopLookup.target_slot>>)
            /\ UNCHANGED <<lg_pc, lg_result>>
       ELSE \* the recursion has used up the machine stack
            /\ lg_result' = [panic |-> "StackOverflow"]
            /\ lg_pc' = "done"
            /\ UNCHANGED lg_call_stack
    /\ UNCHANGED <<instance_global_variables, module_to_global_variables_list,
                   lg_scan_module, lg_scan_slot, lg_returned>>

\* lines 983-1009: the recursive call returned Ok(value) and the caller goes
\* on with target_instance_global_variable_index = value
LgResolveResume ==
    /\ lg_pc = "returned"
    /\ LgFinishCall(lg_returned)
    /\ UNCHANGED <<instance_global_variables, lg_scan_module>>

\* lines 913-923
LgReturnOk ==
    /\ lg_pc = "scan"
    /\ lg_scan_module = Len(named_ast_modules)
    /\ lg_result' =
         [ok |-> [instances |-> instance_global_variables,
                  list |-> [i \in 1..Len(module_to_global_variables_list) |->
                              [j \in 1..Len(module_to_global_variables_list[i]) |->
                                  Unwrap(module_to_global_variables_list[i][j])]]]]
    /\ lg_pc' = "done"
    /\ UNCHANGED <<instance_global_variables, module_to_global_variables_list,
                   lg_scan_module, lg_scan_slot, lg_call_stack, lg_returned>>

----------------------------------------------------------------------------
(* The inputs of link_global_variables: three AST modules named A, B, C,     *)
(* each with at most two global imports and two internally defined globals. *)

GT_i32 == GlobalType("I32", FALSE)

GT_i32_mut == GlobalType("I32", TRUE)

GlobalImport(module_name, global_type) ==
    [module_name |-> module_name, item_name |-> "v",
     import_descriptor |-> [kind |-> "GlobalType", type |-> global_type]]

GlobalExport(index) ==
    [name |-> "v", export_descriptor |-> [kind |-> "GlobalItemIndex", index |-> index]]

GlobalItem(global_type, op, value) ==
    [global_type |-> global_type,
     initialize_instruction_items |-> <<[op |-> op, value |-> value], InsEnd>>]

GlobalModule(import_items, export_items, global_items) ==
    [type_items |-> <<>>,
     import_items |-> import_items,
     export_items |-> export_items,
     internal_function_to_type_index_list |-> <<>>,
     code_items |-> <<>>,
     tables |-> <<>>,
     memory_blocks |-> <<>>,
     global_items |-> global_items]

LgModuleChoices ==
    {GlobalModule(<<>>, <<>>, <<>>),
     GlobalModule(<<>>, <<>>, <<GlobalItem(GT_i32, "I32Const", 41)>>),
     GlobalModule(<<>>, <<GlobalExport(0)>>, <<GlobalItem(GT_i32, "I32Const", 41)>>),
     GlobalModule(<<>>, <<GlobalExport(0)>>, <<GlobalItem(GT_i32, "I64Const", 7)>>),
     GlobalModule(<<>>, <<GlobalExport(0)>>, <<GlobalItem(GT_i32_mut, "I32Const", 41)>>),
     GlobalModule(<<GlobalImport("Z", GT_i32)>>, <<GlobalExport(0)>>, <<>>)}
    \cup
    {GlobalModule(<<GlobalImport(q[1], q[2])>>, <<GlobalExport(0)>>, <<>>) :
        q \in {"A", "B", "C"} \X {GT_i32, GT_i32_mut}}
    \cup
    {GlobalModule(<<GlobalImport(q[1], q[3])>>, <<GlobalExport(q[2])>>,
                  <<GlobalItem(GT_i32, "I32Const", 5)>>) :
        q \in {"A", "B", "C"} \X {0, 1} \X {GT_i32, GT_i32_mut}}
    \cup
    \* two imports in either order, and two internal globals
    {GlobalModule(<<GlobalImport("A", GT_i32), GlobalImport("B", GT_i32_mut)>>, <<>>,
                  <<GlobalItem(GT_i32, "I32Const", 5)>>),
     GlobalModule(<<GlobalImport("B", GT_i32_mut), GlobalImport("A", GT_i32)>>, <<>>,
                  <<GlobalItem(GT_i32, "I32Const", 5)>>),
     GlobalModule(<<>>, <<GlobalExport(1)>>,
                  <<GlobalItem(GT_i32, "I32Const", 41),
                    GlobalItem(GT_i32_mut, "I32Const", 43)>>)}

LgInit ==
    /\ native_modules = <<>>
    /\ named_ast_modules \in
         {[i \in 1..Len(AstModuleNames) |-> [name |-> AstModuleNames[i], module |-> m[i]]] :
            m \in [1..Len(AstModuleNames) -> LgModuleChoices]}
    /\ LfIdle
    /\ LtIdle
    /\ VmIdle
    /\ GbIdle
    /\ NmIdle
    /\ lg_pc = "create"
    /\ instance_global_variables = <<>>
    /\ module_to_global_variables_list = <<>>
    /\ lg_scan_module = 0
    /\ lg_scan_slot = 0
    /\ lg_call_stack = <<>>
    /\ lg_returned = 0
    /\ lg_result = [running |-> TRUE]

LgNext ==
    \/ LgCreateInstances /\ UNCHANGED <<inputVars, lfVars, ltVars, vmVars, gbVars, nmVars>>
    \/ LgCreateError /\ UNCHANGED <<inputVars, lfVars, ltVars, vmVars, gbVars, nmVars>>
    \/ LgScanSkip /\ UNCHANGED <<inputVars, lfVars, ltVars, vmVars, gbVars, nmVars>>
    \/ LgScanNextModule /\ UNCHANGED <<inputVars, lfVars, ltVars, vmVars, gbVars, nmVars>>
    \/ LgScanCall /\ UNCHANGED <<inputVars, lfVars, ltVars, vmVars, gbVars, nmVars>>
    \/ LgResolveError /\ UNCHANGED <<inputVars, lfVars, ltVars, vmVars, gbVars, nmVars>>
    \/ LgResolveMapped /\ UNCHANGED <<inputVars, lfVars, ltVars, vmVars, gbVars, nmVars>>
    \/ LgResolveRecurse /\ UNCHANGED <<inputVars, lfVars, ltVars, vmVars, gbVars, nmVars>>
    \/ LgResolveResume /\ UNCHANGED <<inputVars, lfVars, ltVars, vmVars, gbVars, nmVars>>
    \/ LgReturnOk /\ UNCHANGED <<inputVars, lfVars, ltVars, vmVars, gbVars, nmVars>>

SpecLinkGlobals == LgInit /\ [][LgNext]_vars

----------------------------------------------------------------------------
(* Claims about link_global_variables. *)

LgOk == "ok" \in DOMAIN lg_result

\* the set-up of the claim: a defines v = 41 and exports it, b imports v from
\* a and exports it, c imports it from b; nothing else is declared
GlobalChainSetUp(a, b, c) ==
    /\ AstModuleAt(a) =
         GlobalModule(<<>>, <<GlobalExport(0)>>, <<GlobalItem(GT_i32, "I32Const", 41)>>)
    /\ AstModuleAt(b) =
         GlobalModule(<<GlobalImport(named_ast_modules[a + 1].name, GT_i32)>>,
                      <<GlobalExport(0)>>, <<>>)
    /\ AstModuleAt(c) =
         GlobalModule(<<GlobalImport(named_ast_modules[b + 1].name, GT_i32)>>,
                      <<GlobalExport(0)>>, <<>>)

\* C4: with a defining and exporting v, b importing v from a and exporting
\* it and c importing it from b, in every order of the three modules,
\* link_global_variables returns Ok and maps c's import slot, b's import slot
\* and a's defining slot to the same instance, the one initialised from a's
\* initialiser.
C4_GlobalChainLinked ==
    \A a, b, c \in AstModuleIndexes :
      (GlobalChainSetUp(a, b, c) /\ lg_pc = "done") =>
        /\ LgOk
        /\ lg_result.ok.list[c + 1][1] = lg_result.ok.list[a + 1][1]
        /\ lg_result.ok.list[b + 1][1] = lg_result.ok.list[a + 1][1]
        /\ lg_result.ok.instances[lg_result.ok.list[a + 1][1] + 1].value = Value("I32", 41)

\* the global type of the definition that slot `slot` of module m stands
\* for: the module's own global item, or for an import slot the definition
\* its chain of imports ends at (<<>> when the chain breaks or is longer
\* than `fuel`)
RECURSIVE SharedGlobalType(_, _, _)
SharedGlobalType(m, slot, fuel) ==
    LET import_count == Len(global_imports(AstModuleAt(m)))
    IN IF slot >= import_count
       THEN AstModuleAt(m).global_items[slot - import_count + 1].global_type
       ELSE IF fuel = 0 \/ GlobalLookup(m, slot).kind # "Target" THEN <<>>
       ELSE SharedGlobalType(GlobalLookup(m, slot).target_ast_module_index,
                             GlobalLookup(m, slot).target_slot, fuel - 1)

DeclaredGlobalType(m, slot) == global_imports(AstModuleAt(m))[slot + 1].import_descriptor.type

\* the global exports of the module called `module_name` under `item_name`
GlobalExportsNamed(module_name, item_name) ==
    {e \in Range(AstModuleAt(SetMin({m \in AstModuleIndexes :
                                        named_ast_modules[m + 1].name = module_name})).export_items) :
        e.export_descriptor.kind = "GlobalItemIndex" /\ e.name = item_name}

LgErr(kind) == "err" \in DOMAIN lg_result /\ lg_result.err = kind

\* C20: when link_global_variables returns Ok, every global import names a
\* module that exports a global under the imported name and declares the
\* global type, value type and mutability, of the instance it shares; the
\* link fails with GlobalVariableNotFound exactly when the import it stopped
\* at names an existing module without such an export, and with
\* ImportedGlobalVariableTypeMismatch only when the declared type of that
\* import differs from the type of the instance
C20_GlobalImportChecked ==
    /\ LgOk =>
         \A m \in AstModuleIndexes :
            \A slot \in 0..(Len(global_imports(AstModuleAt(m))) - 1) :
               /\ GlobalLookup(m, slot).kind = "Target"
               /\ DeclaredGlobalType(m, slot) = SharedGlobalType(m, slot, Len(named_ast_modules))
    /\ (lg_pc = "done" /\ lg_call_stack # <<>> /\ "err" \in DOMAIN lg_result) =>
         LET m == lg_call_stack[Len(lg_call_stack)][1]
             slot == lg_call_stack[Len(lg_call_stack)][2]
             import_item == global_imports(AstModuleAt(m))[slot + 1]
         IN /\ LgErr("GlobalVariableNotFound") <=>
                  /\ \E t \in AstModuleIndexes : named_ast_modules[t + 1].name = import_item.module_name
                  /\ GlobalExportsNamed(import_item.module_name, import_item.item_name) = {}
            /\ LgErr("ImportedGlobalVariableTypeMismatch") =>
                  DeclaredGlobalType(m, slot) # SharedGlobalType(m, slot, Len(named_ast_modules))

\* the internally defined globals in the order the first loop meets them:
\* module by module, in definition order
RECURSIVE GlobalItemsUpTo(_)
GlobalItemsUpTo(k) ==
    IF k = 0 THEN <<>>
    ELSE GlobalItemsUpTo(k - 1) \o named_ast_modules[k].module.global_items

AllGlobalItems == GlobalItemsUpTo(Len(named_ast_modules))

InitialiserValue(global_item) ==
    get_constant_instruction_value(global_item.initialize_instruction_items)

\* the positions in AllGlobalItems of the initialisers whose value is not of
\* the declared value type
BadInitialisers ==
    {i \in 1..Len(AllGlobalItems) :
        InitialiserValue(AllGlobalItems[i]).type # AllGlobalItems[i].global_type.value_type}

----------------------------------------------------------------------------
(* The interpreter: vm.rs and vm_stack.rs (stack, status, frames),           *)
(* ins_control.rs (process_end) and interpreter.rs (exec_instruction).       *)

\* vm_stack.rs: the cells of one frame-info segment: previous frame_pointer,
\* local_pointer and base_pointer, the vm_module_index, function_index and
\* address to go back to, and the frame type that goes with them
INFO_SEGMENT_ITEM_COUNT == 7

\* vm.rs: the frame_pointer while no frame is active
INITIAL_FRAME_POINTER == 0

\* VM status, the program counter and the frame cursor
Status(vm_module_index, function_index_, frame_type, address, frame_pointer, local_pointer, base_pointer) ==
    [vm_module_index |-> vm_module_index,
     function_index |-> function_index_,
     frame_type |-> frame_type,
     address |-> address,
     frame_pointer |-> frame_pointer,
     local_pointer |-> local_pointer,
     base_pointer |-> base_pointer]

InfoCell(n) == [type |-> "Info", value |-> n]

\* a BlockType as the number stored in an info cell
BlockTypeToCell(block_type) ==
    CASE block_type.bt = "ResultEmpty" -> 0
      [] block_type.bt = "ResultI32" -> 1
      [] block_type.bt = "ResultI64" -> 2
      [] block_type.bt = "ResultF32" -> 3
      [] block_type.bt = "ResultF64" -> 4
      [] block_type.bt = "TypeIndex" -> 5 + block_type.type_index

BlockTypeFromCell(n) ==
    CASE n = 0 -> ResultEmpty
      [] n = 1 -> ResultOf("I32")
      [] n = 2 -> ResultOf("I64")
      [] n = 3 -> ResultOf("F32")
      [] n = 4 -> ResultOf("F64")
      [] n >= 5 -> TypeIndex(n - 5)

\* the info segment that records the status to go back to
InfoSegment(st) ==
    <<InfoCell(st.frame_pointer), InfoCell(st.local_pointer), InfoCell(st.base_pointer),
      InfoCell(st.vm_module_index), InfoCell(st.function_index), InfoCell(st.address),
      InfoCell(BlockTypeToCell(st.frame_type))>>

\* vm.stack.get_size()
get_size(stack) == Len(stack)

\* vm.stack.peek_values(count): the top count cells, the topmost last
peek_values(stack, count) == SubSeq(stack, Len(stack) - count + 1, Len(stack))

\* anvm_ast::types::check_value_types: the lengths, then the first position
\* whose value is not of the type listed there
check_value_types(values, types) ==
    IF Len(values) # Len(types)
    THEN [err |-> "LengthMismatch", index |-> 0]
    ELSE LET differ == {i \in 1..Len(types) : values[i].type # types[i]}
         IN IF differ = {}
            THEN [err |-> "None", index |-> 0]
            ELSE [err |-> "DataTypeMismatch", index |-> SetMin(differ) - 1]

\* VM::push_frame for a frame whose arguments are the top argument_count
\* cells: the info segment that records return_status is pushed over them;
\* frame_pointer is the stack size after the segment, base_pointer the first
\* argument cell, and local_pointer is frame_pointer in a call frame and
\* inherited in a block frame.  The other status fields are set by
\* exec_instruction.
push_frame(vm_, is_call_frame, argument_count, return_status) ==
    LET stack_size == get_size(vm_.stack)
        frame_pointer == stack_size + INFO_SEGMENT_ITEM_COUNT
    IN [vm_ EXCEPT
          !.stack = vm_.stack \o InfoSegment(return_status),
          !.status.frame_pointer = frame_pointer,
          !.status.local_pointer = IF is_call_frame THEN frame_pointer ELSE @,
          !.status.base_pointer = stack_size - argument_count]

\* VM::pop_frame(results_count): takes the top results_count operands, drops
\* the current frame from its base_pointer up (operands and info segment), restores
\* frame_pointer, local_pointer and base_pointer from the segment, pushes the
\* results again and returns (vm_module_index, function_index, frame_type,
\* address) of the segment
pop_frame(vm_, results_count) ==
    LET results == peek_values(vm_.stack, results_count)
        frame_pointer == vm_.status.frame_pointer
        info(i) == vm_.stack[frame_pointer - INFO_SEGMENT_ITEM_COUNT + i].value
    IN [vm |-> [vm_ EXCEPT
                  !.stack = SubSeq(vm_.stack, 1, vm_.status.base_pointer) \o results,
                  !.status.frame_pointer = info(1),
                  !.status.local_pointer = info(2),
                  !.status.base_pointer = info(3)],
        vm_module_index |-> info(4),
        function_index |-> info(5),
        address |-> info(6),
        frame_type |-> BlockTypeFromCell(info(7))]

----------------------------------------------------------------------------
(* ins_control.rs *)

\* enum ControlResult, lines 22-61
Sequence == [cr |-> "Sequence"]

PushStackFrame(is_call_frame, vm_module_index, function_index_, frame_type, address) ==
    [cr |-> "PushStackFrame", is_call_frame |-> is_call_frame,
     vm_module_index |-> vm_module_index, function_index |-> function_index_,
     frame_type |-> frame_type, address |-> address]

PopStackFrame(is_call_frame, vm_module_index, function_index_, frame_type, address) ==
    [cr |-> "PopStackFrame", is_call_frame |-> is_call_frame,
     vm_module_index |-> vm_module_index, function_index |-> function_index_,
     frame_type |-> frame_type, address |-> address]

ProgramEnd == [cr |-> "ProgramEnd"]

JumpWithinFunction(frame_type, address) ==
    [cr |-> "JumpWithinFunction", frame_type |-> frame_type, address |-> address]

JumpWithinBlock(address) == [cr |-> "JumpWithinBlock", address |-> address]

\* Result<T, EngineError>, and a panic of the thread
Ok(x) == [ok |-> x]

Err(e) == [err |-> e]

Panic(message) == [panic |-> message]

IsOk(r) == "ok" \in DOMAIN r

IsErr(r) == "err" \in DOMAIN r

IsPanic(r) == "panic" \in DOMAIN r

\* lines 77-90: the result types of the current frame
result_types(vm_) ==
    LET frame_type == vm_.status.frame_type
    IN CASE frame_type.bt = "ResultEmpty" -> <<>>
         [] frame_type.bt = "ResultI32" -> <<"I32">>
         [] frame_type.bt = "ResultI64" -> <<"I64">>
         [] frame_type.bt = "ResultF32" -> <<"F32">>
         [] frame_type.bt = "ResultF64" -> <<"F64">>
         [] frame_type.bt = "TypeIndex" ->
               vm_.vm_modules[vm_.status.vm_module_index + 1]
                  .function_types[frame_type.type_index + 1].results

\* the count taken from base_pointer without the info segment taken off
operands_count_WithInfoSegment(vm_) ==
    get_size(vm_.stack) - vm_.status.base_pointer

\* the count taken from frame_pointer, the end of the info segment
operands_count_FromFramePointer(vm_) ==
    get_size(vm_.stack) - vm_.status.frame_pointer - INFO_SEGMENT_ITEM_COUNT

\* lines 94-95
operands_count(vm_) ==
    get_size(vm_.stack) - vm_.status.base_pointer - INFO_SEGMENT_ITEM_COUNT

\* the error of lines 97-116 in its function variant whatever the end
NotEnoughOperand_FunctionVariant(vm_, option_block_index, results_count, operands_count_) ==
    [kind |-> "NotEnoughOperandForFunctionResult",
     vm_module_index |-> vm_.status.vm_module_index,
     function_index |-> vm_.status.function_index,
     results_count |-> results_count,
     operands_count |-> operands_count_]

\* lines 97-116
NotEnoughOperand(vm_, option_block_index, results_count, operands_count_) ==
    IF IsSome(option_block_index)
    THEN [kind |-> "NotEnoughOperandForBlockResult",
          vm_module_index |-> vm_.status.vm_module_index,
          function_index |-> vm_.status.function_index,
          block_index |-> Unwrap(option_block_index),
          results_count |-> results_count,
          operands_count |-> operands_count_]
    ELSE [kind |-> "NotEnoughOperandForFunctionResult",
          vm_module_index |-> vm_.status.vm_module_index,
          function_index |-> vm_.status.function_index,
          results_count |-> results_count,
          operands_count |-> operands_count_]

\* the mismatch error with the type found taken from the declared list
ResultTypeMismatch_DeclaredAsFound(vm_, option_block_index, result_index, result_types_, results) ==
    [kind |-> IF IsSome(option_block_index) THEN "BlockResultTypeMismatch"
              ELSE "FunctionResultTypeMismatch",
     vm_module_index |-> vm_.status.vm_module_index,
     function_index |-> vm_.status.function_index,
     result_index |-> result_index,
     result_type |-> result_types_[result_index + 1],
     value_type |-> result_types_[result_index + 1]]

\* lines 124-145
ResultTypeMismatch(vm_, option_block_index, result_index, result_types_, results) ==
    IF IsSome(option_block_index)
    THEN [kind |-> "BlockResultTypeMismatch",
          vm_module_index |-> vm_.status.vm_module_index,
          function_index |-> vm_.status.function_index,
          block_index |-> Unwrap(option_block_index),
          result_index |-> result_index,
          result_type |-> result_types_[result_index + 1],
          value_type |-> results[result_index + 1].type]
    ELSE [kind |-> "FunctionResultTypeMismatch",
          vm_module_index |-> vm_.status.vm_module_index,
          function_index |-> vm_.status.function_index,
          result_index |-> result_index,
          result_type |-> result_types_[result_index + 1],
          value_type |-> results[result_index + 1].type]

\* the frame test on base_pointer in place of local_pointer
is_call_frame_ByBasePointer(vm_) ==
    vm_.status.frame_pointer = vm_.status.base_pointer + INFO_SEGMENT_ITEM_COUNT

\* lines 71-74: a call frame has frame_pointer = local_pointer
is_call_frame(vm_) == vm_.status.frame_pointer = vm_.status.local_pointer

\* the pop with every operand of the frame carried across
PopFrameResult_CarryAllOperands(vm_, results_count) ==
    LET popped == pop_frame(vm_, get_size(vm_.stack) - vm_.status.base_pointer
                                   - INFO_SEGMENT_ITEM_COUNT)
        is_program_end == popped.vm.status.frame_pointer = INITIAL_FRAME_POINTER
    IN [vm |-> popped.vm,
        result |-> IF is_program_end
                   THEN Ok(ProgramEnd)
                   ELSE Ok(PopStackFrame(is_call_frame(vm_), popped.vm_module_index,
                                         popped.function_index, popped.frame_type,
                                         popped.address))]

\* the pop with every popped call frame taken for the end of the program
PopFrameResult_CallFrameEndsProgram(vm_, results_count) ==
    LET popped == pop_frame(vm_, results_count)
    IN [vm |-> popped.vm,
        result |-> IF is_call_frame(vm_)
                   THEN Ok(ProgramEnd)
                   ELSE Ok(PopStackFrame(is_call_frame(vm_), popped.vm_module_index,
                                         popped.function_index, popped.frame_type,
                                         popped.address))]

\* lines 152-170: the frame is popped and the result says where to go on
PopFrameResult(vm_, results_count) ==
    LET popped == pop_frame(vm_, results_count)
        is_program_end == popped.vm.status.frame_pointer = INITIAL_FRAME_POINTER
    IN [vm |-> popped.vm,
        result |-> IF is_program_end
                   THEN Ok(ProgramEnd)
                   ELSE Ok(PopStackFrame(is_call_frame(vm_), popped.vm_module_index,
                                         popped.function_index, popped.frame_type,
                                         popped.address))]

\* process_end with the frame popped before the results are checked
process_end_PopThenCheck(vm_, option_block_index) ==
    LET result_types_ == result_types(vm_)
        results_count == Len(result_types_)
        operands_count_ == operands_count(vm_)
        results == peek_values(vm_.stack, results_count)
        popped == PopFrameResult(vm_, IF operands_count_ < results_count
                                      THEN operands_count_ ELSE results_count)
    IN IF operands_count_ < results_count
       THEN [vm |-> popped.vm,
             result |-> Err(NotEnoughOperand(vm_, option_block_index,
                                             results_count, operands_count_))]
       ELSE LET checked == check_value_types(results, result_types_)
            IN IF checked.err = "DataTypeMismatch"
               THEN [vm |-> popped.vm,
                     result |-> Err(ResultTypeMismatch(vm_, option_block_index, checked.index,
                                                       result_types_, results))]
               ELSE popped

\* process_end, lines 63-171
process_end(vm_, option_block_index) ==
    LET result_types_ == result_types(vm_)
        results_count == Len(result_types_)
        operands_count_ == operands_count(vm_)
    IN IF operands_count_ < 0
       THEN \* line 95: the usize subtraction overflows (a debug build panics); not
            \* reached while stack_size >= base_pointer + INFO_SEGMENT_ITEM_COUNT
            [vm |-> vm_, result |-> Panic("attempt to subtract with overflow")]
       ELSE IF operands_count_ < results_count
       THEN [vm |-> vm_,
             result |-> Err(NotEnoughOperand(vm_, option_block_index,
                                             results_count, operands_count_))]
       ELSE LET results == peek_values(vm_.stack, results_count)
                checked == check_value_types(results, result_types_)
            IN CASE checked.err = "LengthMismatch" ->
                      [vm |-> vm_, result |-> Panic("argument count should be match")]
                 [] checked.err = "DataTypeMismatch" ->
                      [vm |-> vm_,
                       result |-> Err(ResultTypeMismatch(vm_, option_block_index,
                                                         checked.index, result_types_,
                                                         results))]
                 [] OTHER -> PopFrameResult(vm_, results_count)

\* process_unreachable, lines 173-175
process_unreachable(vm_) == [vm |-> vm_, result |-> Err([kind |-> "Unreachable"])]

\* process_nop, lines 177-180
process_nop(vm_) == [vm |-> vm_, result |-> Ok(Sequence)]

----------------------------------------------------------------------------
(* The instruction modules that exec_instruction calls. *)

\* ins_const::i32_const, i64_const, f32_const, f64_const: push the literal
ins_const(vm_, type, value) ==
    [vm |-> [vm_ EXCEPT !.stack = Append(@, Value(type, value))], result |-> Ok(TRUE)]

\* ins_numeric_binary::i32_div_s: the two operands are taken off the stack;
\* a zero divisor is the trap IntegerDivideByZero, else the quotient is pushed
i32_div_s(vm_) ==
    LET size == get_size(vm_.stack)
        lhs == vm_.stack[size - 1].value
        rhs == vm_.stack[size].value
        rest == SubSeq(vm_.stack, 1, size - 2)
    IN IF rhs = 0
       THEN [vm |-> [vm_ EXCEPT !.stack = rest],
             result |-> Err([kind |-> "IntegerDivideByZero"])]
       ELSE [vm |-> [vm_ EXCEPT !.stack = Append(rest, Value("I32", lhs \div rhs))],
             result |-> Ok(TRUE)]

\* ins_function::call for a function without parameters and locals: a call
\* frame whose info segment holds the caller's status with address + 1
call(vm_, vm_module_index, type_index, function_index_, internal_function_index, address) ==
    [vm |-> push_frame(vm_, TRUE, 0, [vm_.status EXCEPT !.address = @ + 1]),
     result |-> Ok(PushStackFrame(TRUE, vm_module_index, function_index_,
                                  TypeIndex(type_index), address))]

\* the parameter types of a block type: none unless it names a function type
param_types(vm_, block_type) ==
    IF block_type.bt = "TypeIndex"
    THEN vm_.vm_modules[vm_.status.vm_module_index + 1]
            .function_types[block_type.type_index + 1].params
    ELSE <<>>

\* ins_block::block (a block or a loop): a block frame over the parameters of
\* the block type, whose info segment holds the status to go on with after
\* the end of the block
block(vm_, block_type, block_index, end_address) ==
    [vm |-> push_frame(vm_, FALSE, Len(param_types(vm_, block_type)),
                       [vm_.status EXCEPT !.address = end_address + 1]),
     result |-> Ok(PushStackFrame(FALSE, vm_.status.vm_module_index,
                                  vm_.status.function_index, block_type,
                                  vm_.status.address + 1))]

\* ins_block::jump_within_block: the frame stays, only the address changes
jump_within_block(vm_, address) == [vm |-> vm_, result |-> Ok(JumpWithinBlock(address))]

\* the VM seen from the frame around the current one: pop_frame keeping count
\* operands, and the whole status taken from the info segment
leave_frame(vm_, count) ==
    LET popped == pop_frame(vm_, count)
    IN [popped.vm EXCEPT !.status.vm_module_index = popped.vm_module_index,
                         !.status.function_index = popped.function_index,
                         !.status.frame_type = popped.frame_type,
                         !.status.address = popped.address]

RECURSIVE leave_frames(_, _, _)
leave_frames(vm_, count, frames) ==
    IF frames = 0 THEN vm_ ELSE leave_frames(leave_frame(vm_, count), count, frames - 1)

\* the frame a branch of relative_depth aims at
target_frame(vm_, relative_depth) == leave_frames(vm_, 0, relative_depth)

\* the branch taken without looking at the operands it carries
branch_out_Unchecked(vm_, option_block_index, carried_types, relative_depth, to_call_frame, address) ==
    LET count == IF operands_count(vm_) < Len(carried_types)
                 THEN operands_count(vm_) ELSE Len(carried_types)
        popped == pop_frame(leave_frames(vm_, count, relative_depth), count)
        left == [popped.vm EXCEPT !.status.vm_module_index = vm_.status.vm_module_index,
                                  !.status.function_index = vm_.status.function_index,
                                  !.status.frame_type = vm_.status.frame_type,
                                  !.status.address = vm_.status.address]
    IN [vm |-> left,
        result |-> IF ~to_call_frame
                   THEN Ok(JumpWithinFunction(popped.frame_type, address))
                   ELSE IF left.status.frame_pointer = INITIAL_FRAME_POINTER
                   THEN Ok(ProgramEnd)
                   ELSE Ok(PopStackFrame(TRUE, popped.vm_module_index,
                                         popped.function_index, popped.frame_type,
                                         popped.address))]

\* the common part of the branches: the top operands are checked against
\* carried_types as process_end checks the results, then relative_depth + 1
\* frames are popped with these operands carried over; a branch to a block
\* frame goes on at address in the frame around the target, a branch to the
\* call frame is the end of the function
branch_out(vm_, option_block_index, carried_types, relative_depth, to_call_frame, address) ==
    LET count == Len(carried_types)
        operands_count_ == operands_count(vm_)
    IN IF operands_count_ < count
       THEN [vm |-> vm_,
             result |-> Err(NotEnoughOperand(vm_, option_block_index, count,
                                             operands_count_))]
       ELSE LET carried == peek_values(vm_.stack, count)
                checked == check_value_types(carried, carried_types)
            IN IF checked.err = "DataTypeMismatch"
               THEN [vm |-> vm_,
                     result |-> Err(ResultTypeMismatch(vm_, option_block_index,
                                                       checked.index, carried_types,
                                                       carried))]
               ELSE branch_out_Unchecked(vm_, option_block_index, carried_types,
                                         relative_depth, to_call_frame, address)

\* ins_block::process_break (br to a block or if, and return): the target's
\* result types are carried
process_break(vm_, option_block_index, relative_depth, address) ==
    LET target == target_frame(vm_, relative_depth)
    IN branch_out(vm_, option_block_index, result_types(target), relative_depth,
                  is_call_frame(target), address)

\* ins_block::recur (br to a loop): the target's parameter types are carried
\* and address is the start of the loop, which enters its frame again
recur(vm_, block_index, relative_depth, address) ==
    LET target == target_frame(vm_, relative_depth)
    IN branch_out(vm_, Some(block_index), param_types(target, target.status.frame_type),
                  relative_depth, FALSE, address)

\* the i32 on top of the stack taken off
pop_i32(vm_) ==
    [vm |-> [vm_ EXCEPT !.stack = SubSeq(@, 1, Len(@) - 1)],
     value |-> vm_.stack[Len(vm_.stack)].value]

\* ins_block::process_break_when_not_eq_zero (br_if to a block): the
\* condition is popped; zero goes on with the next instruction
process_break_when_not_eq_zero(vm_, option_block_index, relative_depth, address) ==
    LET popped == pop_i32(vm_)
    IN IF popped.value # 0
       THEN process_break(popped.vm, option_block_index, relative_depth, address)
       ELSE [vm |-> popped.vm, result |-> Ok(Sequence)]

\* ins_block::recur_when_not_eq_zero (br_if to a loop)
recur_when_not_eq_zero(vm_, block_index, relative_depth, address) ==
    LET popped == pop_i32(vm_)
    IN IF popped.value # 0
       THEN recur(popped.vm, block_index, relative_depth, address)
       ELSE [vm |-> popped.vm, result |-> Ok(Sequence)]

\* ins_block::branch (br_table): the index is popped and picks one of
\* branch_targets, default_branch_target when it is out of range
branch(vm_, option_block_index, branch_targets, default_branch_target) ==
    LET popped == pop_i32(vm_)
        branch_target == IF popped.value >= 0 /\ popped.value < Len(branch_targets)
                         THEN branch_targets[popped.value + 1]
                         ELSE default_branch_target
    IN process_break(popped.vm, option_block_index, branch_target.relative_depth,
                     branch_target.address)

----------------------------------------------------------------------------
(* interpreter.rs: exec_instruction *)

\* object::Instruction
SequenceInstruction(instruction) == [variant |-> "Sequence", instruction |-> instruction]

ControlInstruction(control) == [variant |-> "Control", control |-> control]

\* the opcodes whose arm is todo!(), lines 172-180, 214-219 and 250-257
UnimplementedOpcodes ==
    {"I32TruncSatF32S", "I32TruncSatF32U", "I32TruncSatF64S", "I32TruncSatF64U",
     "I64TruncSatF32S", "I64TruncSatF32U", "I64TruncSatF64S", "I64TruncSatF64U",
     "MemoryInit", "DataDrop", "MemoryCopy", "MemoryFill",
     "TableGet", "TableSet", "TableInit", "ElementDrop", "TableCopy", "TableGrow",
     "TableSize", "TableFill"}

\* lines 26-264: the match over the sequence instructions
sequence_result(vm_, instruction) ==
    CASE instruction.op = "I32Const" -> ins_const(vm_, "I32", instruction.value)
      [] instruction.op = "I64Const" -> ins_const(vm_, "I64", instruction.value)
      [] instruction.op = "F32Const" -> ins_const(vm_, "F32", instruction.value)
      [] instruction.op = "F64Const" -> ins_const(vm_, "F64", instruction.value)
      [] instruction.op = "I32DivS" -> i32_div_s(vm_)
      [] instruction.op \in UnimplementedOpcodes ->
            [vm |-> vm_, result |-> Panic("not yet implemented")]
      [] OTHER -> [vm |-> vm_, result |-> Panic("should no this instruction")]

\* the match over the control instructions with the relative depth of a
\* break left out
control_result_BreakDepthDropped(vm_, control) ==
    CASE control.op = "Unreachable" -> process_unreachable(vm_)
      [] control.op = "Nop" -> process_nop(vm_)
      [] control.op = "End" -> process_end(vm_, control.block_index)
      [] control.op = "Call" ->
            call(vm_, control.vm_module_index, control.type_index, control.function_index,
                 control.internal_function_index, control.address)
      [] control.op = "Block" ->
            block(vm_, control.block_type, control.block_index, control.end_address)
      [] control.op = "JumpWithinBlock" -> jump_within_block(vm_, control.address)
      [] control.op = "Break" ->
            process_break(vm_, control.option_block_index, 0, control.address)
      [] control.op = "BreakWhenNotEqZero" ->
            process_break_when_not_eq_zero(vm_, control.option_block_index,
                                           control.relative_depth, control.address)
      [] control.op = "Recur" ->
            recur(vm_, control.block_index, control.relative_depth, control.address)
      [] control.op = "RecurWhenNotEqZero" ->
            recur_when_not_eq_zero(vm_, control.block_index, control.relative_depth,
                                   control.address)
      [] control.op = "Branch" ->
            branch(vm_, control.option_block_index, control.branch_targets,
                   control.default_branch_target)

\* lines 275-366: the match over the control instructions
control_result(vm_, control) ==
    CASE control.op = "Unreachable" -> process_unreachable(vm_)
      [] control.op = "Nop" -> process_nop(vm_)
      [] control.op = "End" -> process_end(vm_, control.block_index)
      [] control.op = "Call" ->
            call(vm_, control.vm_module_index, control.type_index, control.function_index,
                 control.internal_function_index, control.address)
      [] control.op = "Block" ->
            block(vm_, control.block_type, control.block_index, control.end_address)
      [] control.op = "JumpWithinBlock" -> jump_within_block(vm_, control.address)
      [] control.op = "Break" ->
            process_break(vm_, control.option_block_index, control.relative_depth,
                          control.address)
      [] control.op = "BreakWhenNotEqZero" ->
            process_break_when_not_eq_zero(vm_, control.option_block_index,
                                           control.relative_depth, control.address)
      [] control.op = "Recur" ->
            recur(vm_, control.block_index, control.relative_depth, control.address)
      [] control.op = "RecurWhenNotEqZero" ->
            recur_when_not_eq_zero(vm_, control.block_index, control.relative_depth,
                                   control.address)
      [] control.op = "Branch" ->
            branch(vm_, control.option_block_index, control.branch_targets,
                   control.default_branch_target)

\* lines 266-272
SequenceOutcome(r) ==
    CASE IsOk(r.result) ->
            [vm |-> [r.vm EXCEPT !.status.address = @ + 1], result |-> Ok(FALSE)]
      [] IsErr(r.result) -> [vm |-> r.vm, result |-> r.result]
      [] IsPanic(r.result) -> r

\* the match over the ControlResult with JumpWithinBlock taken as an offset
ControlOutcome_JumpRelative(r) ==
    CASE IsPanic(r.result) -> r
      [] IsErr(r.result) -> [vm |-> r.vm, result |-> r.result]
      [] IsOk(r.result) ->
           LET c == r.result.ok
           IN CASE c.cr = "ProgramEnd" -> [vm |-> r.vm, result |-> Ok(TRUE)]
                [] c.cr = "Sequence" ->
                     [vm |-> [r.vm EXCEPT !.status.address = @ + 1], result |-> Ok(FALSE)]
                [] c.cr \in {"PushStackFrame", "PopStackFrame"} ->
                     [vm |-> [r.vm EXCEPT
                                !.status.vm_module_index = c.vm_module_index,
                                !.status.function_index = c.function_index,
                                !.status.frame_type = c.frame_type,
                                !.status.address = c.address],
                      result |-> Ok(FALSE)]
                [] c.cr = "JumpWithinFunction" ->
                     [vm |-> [r.vm EXCEPT
                                !.status.frame_type = c.frame_type,
                                !.status.address = c.address],
                      result |-> Ok(FALSE)]
                [] c.cr = "JumpWithinBlock" ->
                     [vm |-> [r.vm EXCEPT !.status.address = @ + c.address],
                      result |-> Ok(FALSE)]

\* lines 368-428
ControlOutcome(r) ==
    CASE IsPanic(r.result) -> r
      [] IsErr(r.result) -> [vm |-> r.vm, result |-> r.result]
      [] IsOk(r.result) ->
           LET c == r.result.ok
           IN CASE c.cr = "ProgramEnd" -> [vm |-> r.vm, result |-> Ok(TRUE)]
                [] c.cr = "Sequence" ->
                     [vm |-> [r.vm EXCEPT !.status.address = @ + 1], result |-> Ok(FALSE)]
                [] c.cr \in {"PushStackFrame", "PopStackFrame"} ->
                     [vm |-> [r.vm EXCEPT
                                !.status.vm_module_index = c.vm_module_index,
                                !.status.function_index = c.function_index,
                                !.status.frame_type = c.frame_type,
                                !.status.address = c.address],
                      result |-> Ok(FALSE)]
                [] c.cr = "JumpWithinFunction" ->
                     [vm |-> [r.vm EXCEPT
                                !.status.frame_type = c.frame_type,
                                !.status.address = c.address],
                      result |-> Ok(FALSE)]
                [] c.cr = "JumpWithinBlock" ->
                     [vm |-> [r.vm EXCEPT !.status.address = c.address],
                      result |-> Ok(FALSE)]

\* exec_instruction, lines 20-431
exec_instruction(vm_, instruction) ==
    IF instruction.variant = "Sequence"
    THEN SequenceOutcome(sequence_result(vm_, instruction.instruction))
    ELSE ControlOutcome(control_result(vm_, instruction.control))

----------------------------------------------------------------------------
(* The programs the interpreter is run on: one VM module with two functions *)
(* without parameters and locals.  Function 0 (the callee) is at most one    *)
(* constant; function 1 (the entry) is a prefix of constants followed by     *)
(* nothing, by one more instruction, or by one block.                        *)

MaxBodyLen == 2

SeqsUpTo(S, n) == UNION {[1..k -> S] : k \in 0..n}

\* vm_modules[0].function_types
VmFunctionTypes ==
    <<FunctionType(<<>>, <<>>),
      FunctionType(<<>>, <<"I32">>),
      FunctionType(<<>>, <<"I32", "I64">>),
      FunctionType(<<"I32">>, <<"I32">>)>>

CalleeTypeIndex == 1

I32Const(value) == SequenceInstruction([op |-> "I32Const", value |-> value])

I64Const(value) == SequenceInstruction([op |-> "I64Const", value |-> value])

End(option_block_index) == ControlInstruction([op |-> "End", block_index |-> option_block_index])

Block(block_type, block_index, end_address) ==
    ControlInstruction([op |-> "Block", block_type |-> block_type,
                        block_index |-> block_index, end_address |-> end_address])

AtomCode(name) ==
    CASE name = "i32.const" -> <<I32Const(1)>>
      [] name = "i64.const" -> <<I64Const(2)>>
      [] name = "i32.const 0" -> <<I32Const(0)>>
      [] name = "nop" -> <<ControlInstruction([op |-> "Nop"])>>
      [] name = "unreachable" -> <<ControlInstruction([op |-> "Unreachable"])>>
      [] name = "i32.trunc_sat_f32_s" -> <<SequenceInstruction([op |-> "I32TruncSatF32S"])>>
      [] name = "memory.fill" ->
            <<SequenceInstruction([op |-> "MemoryFill", memory_block_index |-> 0])>>
      [] name = "table.size" ->
            <<SequenceInstruction([op |-> "TableSize", table_index |-> 0])>>
      [] name = "6 / 0" ->
            <<I32Const(6), I32Const(0), SequenceInstruction([op |-> "I32DivS"])>>
      [] name = "6 / 3" ->
            <<I32Const(6), I32Const(3), SequenceInstruction([op |-> "I32DivS"])>>
      [] name = "call" ->
            <<ControlInstruction([op |-> "Call", vm_module_index |-> 0,
                                  type_index |-> CalleeTypeIndex, function_index |-> 0,
                                  internal_function_index |-> 0, address |-> 0])>>

RECURSIVE Code(_)
Code(names) == IF names = <<>> THEN <<>> ELSE AtomCode(Head(names)) \o Code(Tail(names))

BlockTypeNames == {"empty", "i32", "type 2"}

BlockTypeChoice(name) ==
    CASE name = "empty" -> ResultEmpty
      [] name = "i32" -> ResultOf("I32")
      [] name = "type 2" -> TypeIndex(2)
      [] name = "type 3" -> TypeIndex(3)

\* the instructions of the module: function 0 at address 0, function 1 after
\* it; what follows the prefix is named by last: "none", an instruction, or
\* the type of a block with the instructions inner
ProgramCode(callee_body, prefix, last, inner) ==
    LET callee_code == Code(callee_body) \o <<End(None)>>
        block_address == Len(callee_code) + Len(Code(prefix))
        end_address == block_address + 1 + Len(Code(inner))
    IN callee_code \o Code(prefix)
         \o (CASE last = "none" -> <<>>
               [] last \in BlockTypeNames ->
                    <<Block(BlockTypeChoice(last), 0, end_address)>>
                       \o Code(inner) \o <<End(Some(0))>>
               [] OTHER -> AtomCode(last))
         \o <<End(None)>>

EntryAddress(callee_body) == Len(Code(callee_body)) + 1

ProgramChoices ==
    {q \in {0, 1, 2}
          \X SeqsUpTo({"i32.const", "i64.const"}, 1)
          \X SeqsUpTo({"i32.const", "i64.const"}, MaxBodyLen)
          \X (BlockTypeNames \cup {"none", "nop", "6 / 3", "memory.fill",
                                   "i32.trunc_sat_f32_s"})
          \X SeqsUpTo({"i32.const", "i64.const", "unreachable", "6 / 0", "call",
                       "table.size"}, MaxBodyLen) :
        q[4] \notin BlockTypeNames => q[5] = <<>>}

\* Programs with branches.  The entry function holds one outer block or loop
\* (block index 0), in it an inner block (block index 1) unless inner is
\* "none", in that the constants of body and then tail: nothing, a jump over
\* an unreachable, or a branch.
BranchTails ==
    {"none", "jump", "br 0", "br 1", "br 2", "br_if 0", "br_if 1", "br_table 0 1"}

TailDepths(tail) ==
    CASE tail \in {"br 0", "br_if 0"} -> {0}
      [] tail \in {"br 1", "br_if 1"} -> {1}
      [] tail = "br 2" -> {2}
      [] tail = "br_table 0 1" -> {0, 1}
      [] OTHER -> {}

TailLen(tail) == CASE tail = "none" -> 0 [] tail = "jump" -> 2 [] OTHER -> 1

\* the addresses of a branch program; function 0 is the single end at 0
BranchLayout(outer_kind, outer_type, inner, body, tail) ==
    LET nested == inner # "none"
        arguments == IF outer_type = "type 3" THEN <<I32Const(1)>> ELSE <<>>
        outer_address == 1 + Len(arguments)
        tail_address == outer_address + 1 + (IF nested THEN 1 ELSE 0) + Len(Code(body))
        end_inner == tail_address + TailLen(tail)
        end_outer == IF nested THEN end_inner + 1 ELSE end_inner
    IN [nested |-> nested, arguments |-> arguments, outer_address |-> outer_address,
        tail_address |-> tail_address, end_inner |-> end_inner, end_outer |-> end_outer,
        frames |-> (IF nested THEN <<"block">> ELSE <<>>) \o <<outer_kind, "function">>]

\* the decoder's instruction for a branch of relative_depth in this layout
BranchTarget(layout, relative_depth) ==
    [relative_depth |-> relative_depth,
     address |-> CASE layout.frames[relative_depth + 1] = "loop" -> layout.outer_address
                   [] layout.frames[relative_depth + 1] = "function" -> layout.end_outer + 1
                   [] layout.nested /\ relative_depth = 0 -> layout.end_inner + 1
                   [] OTHER -> layout.end_outer + 1]

BranchInstruction(layout, relative_depth, conditional) ==
    LET target == BranchTarget(layout, relative_depth)
        innermost == IF layout.nested THEN 1 ELSE 0
    IN IF layout.frames[relative_depth + 1] = "loop"
       THEN ControlInstruction([op |-> IF conditional THEN "RecurWhenNotEqZero" ELSE "Recur",
                                block_index |-> 0,
                                relative_depth |-> relative_depth,
                                address |-> target.address])
       ELSE ControlInstruction([op |-> IF conditional THEN "BreakWhenNotEqZero" ELSE "Break",
                                option_block_index |-> Some(innermost),
                                relative_depth |-> relative_depth,
                                address |-> target.address])

TailCode(layout, tail) ==
    CASE tail = "none" -> <<>>
      [] tail = "jump" ->
            <<ControlInstruction([op |-> "JumpWithinBlock",
                                  address |-> layout.tail_address + 2]),
              ControlInstruction([op |-> "Unreachable"])>>
      [] tail = "br 0" -> <<BranchInstruction(layout, 0, FALSE)>>
      [] tail = "br 1" -> <<BranchInstruction(layout, 1, FALSE)>>
      [] tail = "br 2" -> <<BranchInstruction(layout, 2, FALSE)>>
      [] tail = "br_if 0" -> <<BranchInstruction(layout, 0, TRUE)>>
      [] tail = "br_if 1" -> <<BranchInstruction(layout, 1, TRUE)>>
      [] tail = "br_table 0 1" ->
            <<ControlInstruction([op |-> "Branch",
                                  option_block_index |-> Some(IF layout.nested THEN 1 ELSE 0),
                                  branch_targets |-> <<BranchTarget(layout, 0)>>,
                                  default_branch_target |-> BranchTarget(layout, 1)])>>

BranchProgramCode(outer_kind, outer_type, inner, body, tail) ==
    LET layout == BranchLayout(outer_kind, outer_type, inner, body, tail)
    IN <<End(None)>>
         \o layout.arguments
         \o <<Block(BlockTypeChoice(outer_type), 0, layout.end_outer)>>
         \o (IF layout.nested
             THEN <<Block(BlockTypeChoice(inner), 1, layout.end_inner)>>
             ELSE <<>>)
         \o Code(body)
         \o TailCode(layout, tail)
         \o (IF layout.nested THEN <<End(Some(1))>> ELSE <<>>)
         \o <<End(Some(0)), End(None)>>

\* a loop is of type "empty" or "type 3", a block of "empty" or "i32"; a
\* branch aims at a frame of the function, a br_table at no loop, and a
\* conditional branch or br_table finds an i32 on top of the stack
BranchProgramChoices ==
    {q \in {0, 1}
          \X {"block", "loop"}
          \X {"empty", "i32", "type 3"}
          \X {"none", "empty", "i32"}
          \X SeqsUpTo({"i32.const", "i64.const", "i32.const 0"}, MaxBodyLen)
          \X BranchTails :
        /\ (q[2] = "loop") => q[3] \in {"empty", "type 3"}
        /\ (q[2] = "block") => q[3] \in {"empty", "i32"}
        /\ \A d \in TailDepths(q[6]) : d < (IF q[4] = "none" THEN 2 ELSE 3)
        /\ (q[6] = "br_table 0 1") => q[2] = "block"
        /\ (q[6] \in {"br_if 0", "br_if 1", "br_table 0 1"}) =>
              /\ q[5] # <<>>
              /\ q[5][Len(q[5])] \in {"i32.const", "i32.const 0"}}

\* the VM when the engine has pushed the call frame of the entry function
\* (function 1, of type entry_type) and is about to run its first instruction
VmStart(entry_type, callee_body, prefix, last, inner) ==
    LET nothing == Status(0, 0, ResultEmpty, 0, INITIAL_FRAME_POINTER, 0, 0)
        loaded == [stack |-> <<>>,
                   status |-> nothing,
                   vm_modules |-> <<[function_types |-> VmFunctionTypes,
                                     code |-> ProgramCode(callee_body, prefix,
                                                          last, inner)]>>]
        framed == push_frame(loaded, TRUE, 0, nothing)
    IN [framed EXCEPT !.status.vm_module_index = 0,
                      !.status.function_index = 1,
                      !.status.frame_type = TypeIndex(entry_type),
                      !.status.address = EntryAddress(callee_body)]

\* the same for a program with branches, whose entry function is at address 1
VmStartBranch(entry_type, outer_kind, outer_type, inner, body, tail) ==
    LET nothing == Status(0, 0, ResultEmpty, 0, INITIAL_FRAME_POINTER, 0, 0)
        loaded == [stack |-> <<>>,
                   status |-> nothing,
                   vm_modules |-> <<[function_types |-> VmFunctionTypes,
                                     code |-> BranchProgramCode(outer_kind, outer_type,
                                                                inner, body, tail)]>>]
        framed == push_frame(loaded, TRUE, 0, nothing)
    IN [framed EXCEPT !.status.vm_module_index = 0,
                      !.status.function_index = 1,
                      !.status.frame_type = TypeIndex(entry_type),
                      !.status.address = 1]

VmInit ==
    /\ native_modules = <<>>
    /\ named_ast_modules = <<>>
    /\ LfIdle
    /\ LtIdle
    /\ LgIdle
    /\ GbIdle
    /\ NmIdle
    /\ \/ \E q \in ProgramChoices :
             /\ vm = VmStart(q[1], q[2], q[3], q[4], q[5])
             /\ vm_before = VmStart(q[1], q[2], q[3], q[4], q[5])
       \/ \E q \in BranchProgramChoices :
             /\ vm = VmStartBranch(q[1], q[2], q[3], q[4], q[5], q[6])
             /\ vm_before = VmStartBranch(q[1], q[2], q[3], q[4], q[5], q[6])
    /\ vm_result = [running |-> TRUE]

\* the engine loop goes on until exec_instruction returns Ok(true) or Err
Running ==
    \/ "running" \in DOMAIN vm_result
    \/ IsOk(vm_result) /\ ~vm_result.ok

\* the instruction at the program counter
CurrentInstruction ==
    vm.vm_modules[vm.status.vm_module_index + 1].code[vm.status.address + 1]

IsSequence(op) ==
    /\ CurrentInstruction.variant = "Sequence"
    /\ CurrentInstruction.instruction.op = op

IsControl(op) ==
    /\ CurrentInstruction.variant = "Control"
    /\ CurrentInstruction.control.op = op

\* one turn of the engine loop: exec_instruction on the current instruction
Step ==
    /\ vm_before' = vm
    /\ vm' = exec_instruction(vm, CurrentInstruction).vm
    /\ vm_result' = exec_instruction(vm, CurrentInstruction).result

ExecConst == Running /\ (IsSequence("I32Const") \/ IsSequence("I64Const")) /\ Step

ExecI32DivS == Running /\ IsSequence("I32DivS") /\ Step

ExecUnimplemented ==
    /\ Running
    /\ CurrentInstruction.variant = "Sequence"
    /\ CurrentInstruction.instruction.op \in UnimplementedOpcodes
    /\ Step

ExecUnreachable == Running /\ IsControl("Unreachable") /\ Step

ExecNop == Running /\ IsControl("Nop") /\ Step

ExecEnd == Running /\ IsControl("End") /\ Step

ExecCall == Running /\ IsControl("Call") /\ Step

ExecBlock == Running /\ IsControl("Block") /\ Step

ExecJumpWithinBlock == Running /\ IsControl("JumpWithinBlock") /\ Step

ExecBreak == Running /\ IsControl("Break") /\ Step

ExecBreakWhenNotEqZero == Running /\ IsControl("BreakWhenNotEqZero") /\ Step

ExecRecur == Running /\ IsControl("Recur") /\ Step

ExecRecurWhenNotEqZero == Running /\ IsControl("RecurWhenNotEqZero") /\ Step

ExecBranch == Running /\ IsControl("Branch") /\ Step

VmNext ==
    \/ ExecConst /\ UNCHANGED <<inputVars, lfVars, ltVars, lgVars, gbVars, nmVars>>
    \/ ExecI32DivS /\ UNCHANGED <<inputVars, lfVars, ltVars, lgVars, gbVars, nmVars>>
    \/ ExecUnimplemented /\ UNCHANGED <<inputVars, lfVars, ltVars, lgVars, gbVars, nmVars>>
    \/ ExecUnreachable /\ UNCHANGED <<inputVars, lfVars, ltVars, lgVars, gbVars, nmVars>>
    \/ ExecNop /\ UNCHANGED <<inputVars, lfVars, ltVars, lgVars, gbVars, nmVars>>
    \/ ExecEnd /\ UNCHANGED <<inputVars, lfVars, ltVars, lgVars, gbVars, nmVars>>
    \/ ExecCall /\ UNCHANGED <<inputVars, lfVars, ltVars, lgVars, gbVars, nmVars>>
    \/ ExecBlock /\ UNCHANGED <<inputVars, lfVars, ltVars, lgVars, gbVars, nmVars>>
    \/ ExecJumpWithinBlock /\ UNCHANGED <<inputVars, lfVars, ltVars, lgVars, gbVars, nmVars>>
    \/ ExecBreak /\ UNCHANGED <<inputVars, lfVars, ltVars, lgVars, gbVars, nmVars>>
    \/ ExecBreakWhenNotEqZero /\ UNCHANGED <<inputVars, lfVars, ltVars, lgVars, gbVars, nmVars>>
    \/ ExecRecur /\ UNCHANGED <<inputVars, lfVars, ltVars, lgVars, gbVars, nmVars>>
    \/ ExecRecurWhenNotEqZero /\ UNCHANGED <<inputVars, lfVars, ltVars, lgVars, gbVars, nmVars>>
    \/ ExecBranch /\ UNCHANGED <<inputVars, lfVars, ltVars, lgVars, gbVars, nmVars>>

SpecVM == VmInit /\ [][VmNext]_vars

----------------------------------------------------------------------------
(* Claims about exec_instruction and process_end. *)

\* exec_instruction has been called at least once
Stepped == "running" \notin DOMAIN vm_result

\* the instruction the last exec_instruction was given
LastInstruction ==
    vm_before.vm_modules[vm_before.status.vm_module_index + 1]
       .code[vm_before.status.address + 1]

LastWasEnd ==
    /\ Stepped
    /\ LastInstruction.variant = "Control"
    /\ LastInstruction.control.op = "End"

LastWasUnimplemented ==
    /\ Stepped
    /\ LastInstruction.variant = "Sequence"
    /\ LastInstruction.instruction.op \in UnimplementedOpcodes

\* the operand cells of the frame that was current when the instruction began
LastOperandsCount ==
    Len(vm_before.stack) - vm_before.status.base_pointer - INFO_SEGMENT_ITEM_COUNT

\* the declared result types of that frame
LastResultTypes == result_types(vm_before)

\* the types of the top Len(LastResultTypes) cells, the topmost last
LastFoundTypes ==
    [i \in 1..Len(LastResultTypes) |->
        vm_before.stack[Len(vm_before.stack) - Len(LastResultTypes) + i].type]

LastMismatches == {i \in 1..Len(LastResultTypes) : LastFoundTypes[i] # LastResultTypes[i]}

NotEnoughOperandKinds ==
    {"NotEnoughOperandForFunctionResult", "NotEnoughOperandForBlockResult"}

ResultTypeMismatchKinds == {"FunctionResultTypeMismatch", "BlockResultTypeMismatch"}

\* C7: executing an unimplemented opcode (memory.init, data.drop,
\* memory.copy, memory.fill, a table instruction, elem.drop, a saturating
\* truncation) makes exec_instruction return an Unsupported error; it does
\* not abort and is not a no-op.
C7_UnimplementedReturnsUnsupported ==
    LastWasUnimplemented =>
        /\ IsErr(vm_result)
        /\ vm_result.err.kind = "Unsupported"

\* C8: whenever exec_instruction returns Err, status.address is not advanced
\* and frame_pointer, local_pointer and base_pointer are as before the
\* instruction; when the instruction was an end, pop_frame has not run: the
\* stack and the whole status are unchanged.
C8_ErrorUnwindsNoFrame ==
    (Stepped /\ IsErr(vm_result)) =>
        /\ vm.status.address = vm_before.status.address
        /\ vm.status.frame_pointer = vm_before.status.frame_pointer
        /\ vm.status.local_pointer = vm_before.status.local_pointer
        /\ vm.status.base_pointer = vm_before.status.base_pointer
        /\ LastWasEnd => (vm.stack = vm_before.stack /\ vm.status = vm_before.status)

\* an end inside a block of the entry function failed on the type of a result
\* that is on the stack
C8_Witness ==
    /\ LastWasEnd
    /\ IsErr(vm_result)
    /\ vm_result.err.kind = "BlockResultTypeMismatch"
    /\ vm.status.frame_pointer # vm.status.local_pointer
    /\ Len(vm.stack) > vm.status.frame_pointer

\* C9: when an end is executed with fewer operands in the current frame than
\* the frame type has results, process_end returns NotEnoughOperandFor-
\* FunctionResult or NotEnoughOperandForBlockResult carrying results_count
\* and operands_count, whatever the types of the operands; with enough
\* operands it returns neither.
C9_EndChecksOperandCount ==
    LastWasEnd =>
        IF LastOperandsCount < Len(LastResultTypes)
        THEN /\ IsErr(vm_result)
             /\ vm_result.err.kind \in NotEnoughOperandKinds
             /\ vm_result.err.results_count = Len(LastResultTypes)
             /\ vm_result.err.operands_count = LastOperandsCount
        ELSE ~(IsErr(vm_result) /\ vm_result.err.kind \in NotEnoughOperandKinds)

\* the end of a block declared with two results met one operand, which is
\* not of the type declared for the top of the stack either
C9_Witness ==
    /\ LastWasEnd
    /\ IsErr(vm_result)
    /\ vm_result.err.kind = "NotEnoughOperandForBlockResult"
    /\ vm_result.err.results_count = 2
    /\ vm_result.err.operands_count = 1
    /\ vm.stack[Len(vm.stack)].type # LastResultTypes[2]

\* C10: when an end is executed with enough operands, the top results_count
\* operands are compared in order with the declared result types; if any
\* differs process_end returns FunctionResultTypeMismatch or
\* BlockResultTypeMismatch with result_index the smallest differing position,
\* result_type the declared type and value_type the type found there; if none
\* differs the frame is popped: the stack is cut at base_pointer, the results
\* are put back and the frame pointers are those of the info segment.
C10_EndChecksResultTypes ==
    (LastWasEnd /\ LastOperandsCount >= Len(LastResultTypes)) =>
        IF LastMismatches # {}
        THEN /\ IsErr(vm_result)
             /\ vm_result.err.kind \in ResultTypeMismatchKinds
             /\ vm_result.err.result_index = SetMin(LastMismatches) - 1
             /\ vm_result.err.result_type = LastResultTypes[SetMin(LastMismatches)]
             /\ vm_result.err.value_type = LastFoundTypes[SetMin(LastMismatches)]
        ELSE /\ IsOk(vm_result)
             /\ vm.stack = SubSeq(vm_before.stack, 1, vm_before.status.base_pointer)
                             \o peek_values(vm_before.stack, Len(LastResultTypes))
             /\ vm.status.frame_pointer =
                  vm_before.stack[vm_before.status.frame_pointer
                                    - INFO_SEGMENT_ITEM_COUNT + 1].value
             /\ vm.status.base_pointer =
                  vm_before.stack[vm_before.status.frame_pointer
                                    - INFO_SEGMENT_ITEM_COUNT + 3].value

\* the end of the entry function, declared (i32, i64), met (i64, i32): both
\* positions differ and the first is reported
C10_Witness ==
    /\ LastWasEnd
    /\ IsErr(vm_result)
    /\ vm_result.err.kind = "FunctionResultTypeMismatch"
    /\ LastMismatches = {1, 2}
    /\ vm_result.err.result_index = 0
    /\ vm_result.err.result_type = "I32"
    /\ vm_result.err.value_type = "I64"

----------------------------------------------------------------------------
(* Claims about the frames of the interpreter. *)

\* the frames on a stack: one info segment each
ActiveFrames(stack) ==
    Cardinality({i \in 1..Len(stack) : stack[i].type = "Info"}) \div INFO_SEGMENT_ITEM_COUNT

\* cell i of the info segment of the frame that was current before the
\* last instruction
LastInfo(i) ==
    vm_before.stack[vm_before.status.frame_pointer - INFO_SEGMENT_ITEM_COUNT + i].value

\* the last instruction was an end that popped its frame
LastEndPopped == LastWasEnd /\ IsOk(vm_result)

\* C11: an end that pops a frame ends the program (exec_instruction returns
\* Ok(true)) if and only if the popped frame was the only active one, the
\* call frame of the invoked function; popping a block frame or the frame
\* of a called function gives PopStackFrame and the status goes back to
\* what the popped info segment recorded; while the program runs the
\* current frame_pointer is never INITIAL_FRAME_POINTER.
C11_ProgramEndIffOutermost ==
    /\ Running => vm.status.frame_pointer # INITIAL_FRAME_POINTER
    /\ LastEndPopped =>
         /\ vm_result.ok <=> ActiveFrames(vm_before.stack) = 1
         /\ ~vm_result.ok =>
              /\ ActiveFrames(vm.stack) = ActiveFrames(vm_before.stack) - 1
              /\ vm.status = Status(LastInfo(4), LastInfo(5), BlockTypeFromCell(LastInfo(7)),
                                    LastInfo(6), LastInfo(1), LastInfo(2), LastInfo(3))

\* the end of the called function popped its call frame and the run went on
\* in the caller
C11_Witness ==
    /\ LastEndPopped
    /\ ~vm_result.ok
    /\ vm_before.status.frame_pointer = vm_before.status.local_pointer
    /\ ActiveFrames(vm_before.stack) >= 2

\* the run has reached ProgramEnd
ProgramEnded == IsOk(vm_result) /\ vm_result.ok

\* the call frame around a frame: the frame itself or the first call frame
\* met going outwards
RECURSIVE EnclosingCallFrame(_)
EnclosingCallFrame(vm_) ==
    IF is_call_frame(vm_) THEN vm_ ELSE EnclosingCallFrame(leave_frame(vm_, 0))

\* the declared results of the function the last instruction belongs to
LastFunctionResultTypes == result_types(EnclosingCallFrame(vm_before))

\* C12: when the run of the invoked function reaches ProgramEnd, no frame is
\* left and the stack holds exactly the results of the function, of the
\* declared types; every end that pops a frame leaves the cells below the
\* frame followed by the declared results of the frame and nothing else.
C12_StackHoldsResultsAtProgramEnd ==
    /\ ProgramEnded =>
         /\ ActiveFrames(vm.stack) = 0
         /\ Len(vm.stack) = Len(LastFunctionResultTypes)
         /\ \A i \in 1..Len(vm.stack) : vm.stack[i].type = LastFunctionResultTypes[i]
    /\ LastEndPopped =>
         /\ Len(vm.stack) = vm_before.status.base_pointer + Len(LastResultTypes)
         /\ \A i \in 1..vm_before.status.base_pointer : vm.stack[i] = vm_before.stack[i]

\* the function declared (i32, i64) ended with three operands after a block
\* had run; two are left
C12_Witness ==
    /\ ProgramEnded
    /\ Len(vm.stack) = 2
    /\ LastOperandsCount = 3
    /\ \E i \in 1..Len(vm_before.vm_modules[1].code) :
          /\ vm_before.vm_modules[1].code[i].variant = "Control"
          /\ vm_before.vm_modules[1].code[i].control.op = "Block"

\* cell i of the info segment of the current frame
CurrentInfo(i) == vm.stack[vm.status.frame_pointer - INFO_SEGMENT_ITEM_COUNT + i].value

\* the current frame was pushed by the invocation of the entry function (it
\* goes back to no frame) or by a call (it goes back to the address after a
\* Call instruction); a frame pushed by Block goes back to the address after
\* the end of the block
CurrentFrameByCall ==
    \/ CurrentInfo(1) = INITIAL_FRAME_POINTER
    \/ /\ CurrentInfo(6) >= 1
       /\ LET caller == vm.vm_modules[CurrentInfo(4) + 1].code[CurrentInfo(6)]
          IN caller.variant = "Control" /\ caller.control.op = "Call"

----------------------------------------------------------------------------
(* get_function_block_items called on its own on the well-formed function   *)
(* bodies of at most MaxTokens instructions before the trailing end.         *)

MaxTokens == 6

TokenNames == {"block", "loop", "if", "else", "end", "nop"}

OpeningTokens == {"block", "loop", "if"}

\* the blocks open after tokens 1..k, innermost last ("if-else" is an if
\* whose else has been met); <<"ill-formed">> when an else or an end has
\* nothing to belong to
RECURSIVE OpenKinds(_, _)
OpenKinds(tokens, k) ==
    IF k = 0 THEN <<>>
    ELSE LET before == OpenKinds(tokens, k - 1)
             n == Len(before)
         IN IF before = <<"ill-formed">> THEN before
            ELSE CASE tokens[k] \in OpeningTokens -> Append(before, tokens[k])
                   [] tokens[k] = "else" ->
                        IF n > 0 /\ before[n] = "if"
                        THEN [before EXCEPT ![n] = "if-else"]
                        ELSE <<"ill-formed">>
                   [] tokens[k] = "end" ->
                        IF n > 0 THEN SubSeq(before, 1, n - 1) ELSE <<"ill-formed">>
                   [] OTHER -> before

WellFormed(tokens) == OpenKinds(tokens, Len(tokens)) = <<>>

\* block indices are given at decode time in the order the blocks open
BlockIndexAt(tokens, i) == Cardinality({j \in 1..(i - 1) : tokens[j] \in OpeningTokens})

TokenInstruction(tokens, i) ==
    CASE tokens[i] = "block" -> InsBlock(ResultEmpty, BlockIndexAt(tokens, i))
      [] tokens[i] = "loop" -> InsLoop(ResultEmpty, BlockIndexAt(tokens, i))
      [] tokens[i] = "if" -> InsIf(ResultOf("I32"), BlockIndexAt(tokens, i))
      [] tokens[i] = "else" -> InsElse
      [] tokens[i] = "end" -> InsEnd
      [] tokens[i] = "nop" -> InsNop

\* the function body: the instructions of the tokens and the trailing end
BodyOfTokens(tokens) ==
    [i \in 1..(Len(tokens) + 1) |->
        IF i = Len(tokens) + 1 THEN InsEnd ELSE TokenInstruction(tokens, i)]

WellFormedTokens == {tokens \in SeqsUpTo(TokenNames, MaxTokens) : WellFormed(tokens)}

GbInit ==
    /\ native_modules = <<>>
    /\ named_ast_modules = <<>>
    /\ LfIdle
    /\ LtIdle
    /\ LgIdle
    /\ VmIdle
    /\ NmIdle
    /\ gb_pc = "call"
    /\ \E tokens \in WellFormedTokens : gb_instruction_items = BodyOfTokens(tokens)
    /\ gb_block_items = <<>>

\* get_function_block_items(instruction_items)
GbCall ==
    /\ gb_pc = "call"
    /\ gb_block_items' = get_function_block_items(gb_instruction_items)
    /\ gb_pc' = "done"
    /\ UNCHANGED gb_instruction_items

GbNext == GbCall /\ UNCHANGED <<inputVars, lfVars, ltVars, lgVars, vmVars, nmVars>>

SpecBlockItems == GbInit /\ [][GbNext]_vars

----------------------------------------------------------------------------
(* Claims about get_function_block_items                                     *)

GbDone == gb_pc = "done"

\* the addresses of the instructions that open a block
OpeningAddresses(instruction_items) ==
    {a \in 0..(Len(instruction_items) - 1) : instruction_items[a + 1].op \in {"Block", "Loop", "If"}}

\* the block index the body gives to the block an item starts at
BlockIndexOfItem(item) == gb_instruction_items[item.start_address + 1].block_index

SpansDisjoint(a, b) == a.end_address < b.start_address \/ b.end_address < a.start_address

SpanStrictlyInside(a, b) == b.start_address < a.start_address /\ a.end_address < b.end_address

\* C14: for every well-formed function body, the items returned by
\* get_function_block_items are one per block, in increasing order of block
\* index, and the spans [start_address, end_address] of any two of them are
\* either disjoint or one strictly inside the other, never crossing
C14_SortedAndLaminar ==
    GbDone =>
        /\ {gb_block_items[i].start_address : i \in 1..Len(gb_block_items)}
              = OpeningAddresses(gb_instruction_items)
        /\ \A i \in 1..Len(gb_block_items) : BlockIndexOfItem(gb_block_items[i]) = i - 1
        /\ \A i, j \in 1..Len(gb_block_items) :
              i # j =>
                 \/ SpansDisjoint(gb_block_items[i], gb_block_items[j])
                 \/ SpanStrictlyInside(gb_block_items[i], gb_block_items[j])
                 \/ SpanStrictlyInside(gb_block_items[j], gb_block_items[i])

\* a body with a block nested in another (closed before it, so the sort has
\* to move it) and a third block disjoint from both
C14_Witness ==
    /\ GbDone
    /\ Len(gb_block_items) = 3
    /\ SpanStrictlyInside(gb_block_items[2], gb_block_items[1])
    /\ SpansDisjoint(gb_block_items[3], gb_block_items[1])

\* the number of opening instructions minus the number of ends strictly
\* between the addresses a and b
Balance(instruction_items, a, b) ==
    Cardinality({c \in (a + 1)..(b - 1) : instruction_items[c + 1].op \in {"Block", "Loop", "If"}})
      - Cardinality({c \in (a + 1)..(b - 1) : instruction_items[c + 1].op = "End"})

\* the address of the end that closes the block opened at address a
MatchingEnd(instruction_items, a) ==
    SetMin({e \in (a + 1)..(Len(instruction_items) - 1) :
              /\ instruction_items[e + 1].op = "End"
              /\ Balance(instruction_items, a, e) = 0})

\* the addresses of the else instructions of the if opened at address a
OwnElse(instruction_items, a) ==
    {e \in (a + 1)..(MatchingEnd(instruction_items, a) - 1) :
        /\ instruction_items[e + 1].op = "Else"
        /\ Balance(instruction_items, a, e) = 0}

\* C15: every If item returned by get_function_block_items has an alternate
\* address exactly when the if of the body has an else of its own, and it is
\* the address of that else; every item ends at the end that closes its
\* block and start_address < alternate_address (when present) < end_address,
\* so that no placeholder end_address 0 is left
C15_AlternateAddressIsOwnElse ==
    GbDone =>
        \A i \in 1..Len(gb_block_items) :
            LET item == gb_block_items[i]
                own == OwnElse(gb_instruction_items, item.start_address)
            IN /\ item.end_address = MatchingEnd(gb_instruction_items, item.start_address)
               /\ item.start_address < item.end_address
               /\ item.end_address # 0
               /\ item.kind = "If" =>
                     /\ IsSome(item.alternate_address) <=> own # {}
                     /\ IsSome(item.alternate_address) =>
                           /\ own = {Unwrap(item.alternate_address)}
                           /\ item.start_address < Unwrap(item.alternate_address)
                           /\ Unwrap(item.alternate_address) < item.end_address

\* an if without an else that holds an if with an else
C15_Witness ==
    /\ GbDone
    /\ \E i, j \in 1..Len(gb_block_items) :
          /\ gb_block_items[i].kind = "If"
          /\ gb_block_items[j].kind = "If"
          /\ SpanStrictlyInside(gb_block_items[j], gb_block_items[i])
          /\ gb_block_items[i].alternate_address = None
          /\ IsSome(gb_block_items[j].alternate_address)

----------------------------------------------------------------------------
(* NativeModule, native_module.rs 23-85: a module built by NativeModule::new *)
(* and a sequence of add_function calls.                                     *)

MaxNativeFunctions == 4

\* NativeModule::new, lines 30-36
NativeModule_new(name) == [name |-> name, function_types |-> <<>>, function_items |-> <<>>]

\* a variant that pushes the function type without looking for it
add_function_type_AlwaysPush(self, params, results) ==
    [self |-> [self EXCEPT !.function_types = Append(@, FunctionType(params, results))],
     index |-> Len(self.function_types)]

\* a variant that puts a new function type in front of the list
add_function_type_PushFront(self, params, results) ==
    LET function_type == FunctionType(params, results)
        option_function_type_index ==
            FirstIndex({i \in 1..Len(self.function_types) :
                           self.function_types[i] = function_type})
    IN IF IsSome(option_function_type_index)
       THEN [self |-> self, index |-> Unwrap(option_function_type_index)]
       ELSE [self |-> [self EXCEPT !.function_types = <<function_type>> \o @],
             index |-> 0]

\* add_function_type, lines 40-57: the module after the call and the index returned
add_function_type(self, params, results) ==
    LET function_type == FunctionType(params, results)
        option_function_type_index ==
            FirstIndex({i \in 1..Len(self.function_types) :
                           self.function_types[i] = function_type})
    IN IF IsSome(option_function_type_index)
       THEN [self |-> self, index |-> Unwrap(option_function_type_index)]
       ELSE [self |-> [self EXCEPT !.function_types = Append(@, function_type)],
             index |-> Len(self.function_types)]

\* add_function, lines 59-76 (param_names and the function pointer play no
\* part in the lists and are left out of the item)
add_function(self, name, params, results) ==
    LET added == add_function_type(self, params, results)
    IN [added.self EXCEPT
          !.function_items = Append(@, [name |-> name, type_index |-> added.index])]

NativeFunctionNames == {"x", "y"}

\* the names looked up: those of the functions and one that is never added
LookupNames == NativeFunctionNames \cup {"z"}

\* no find_function_index_by_name since the last add_function
NoLookup == [called |-> FALSE, name |-> "", result |-> None]

NativeParamLists == SeqsUpTo({"I32"}, 1)

NativeResultLists == SeqsUpTo({"I32", "I64"}, 1)

NmInit ==
    /\ native_modules = <<>>
    /\ named_ast_modules = <<>>
    /\ LfIdle
    /\ LtIdle
    /\ LgIdle
    /\ VmIdle
    /\ GbIdle
    /\ nm_self = NativeModule_new("env")
    /\ nm_calls = <<>>
    /\ nm_found = NoLookup

NmAddFunction ==
    /\ Len(nm_self.function_items) < MaxNativeFunctions
    /\ \E name \in NativeFunctionNames, params \in NativeParamLists, results \in NativeResultLists :
          /\ nm_self' = add_function(nm_self, name, params, results)
          /\ nm_calls' = Append(nm_calls, [name |-> name, params |-> params, results |-> results])
    /\ nm_found' = NoLookup

\* a call of find_function_index_by_name on the module as it is
NmFindFunction ==
    /\ ~nm_found.called
    /\ \E name \in LookupNames :
          nm_found' = [called |-> TRUE, name |-> name,
                       result |-> find_function_index_by_name(nm_self, name)]
    /\ UNCHANGED <<nm_self, nm_calls>>

NmNext ==
    \/ NmAddFunction /\ UNCHANGED <<inputVars, lfVars, ltVars, lgVars, vmVars, gbVars>>
    \/ NmFindFunction /\ UNCHANGED <<inputVars, lfVars, ltVars, lgVars, vmVars, gbVars>>

SpecNativeModule == NmInit /\ [][NmNext]_vars

----------------------------------------------------------------------------
(* Claims about NativeModule *)

\* the function types of the calls so far
CalledFunctionTypes ==
    {FunctionType(nm_calls[i].params, nm_calls[i].results) : i \in 1..Len(nm_calls)}

\* C22: after any sequence of add_function calls on a new NativeModule no
\* two entries of function_types are equal; function_types holds exactly the
\* types of the calls, so that a call whose type is there already adds none,
\* and the item of every call carries the index of the entry of its type
C22_FunctionTypesDeduplicated ==
    /\ \A i, j \in 1..Len(nm_self.function_types) :
          nm_self.function_types[i] = nm_self.function_types[j] => i = j
    /\ Range(nm_self.function_types) = CalledFunctionTypes
    /\ Len(nm_self.function_items) = Len(nm_calls)
    /\ \A i \in 1..Len(nm_calls) :
          /\ nm_self.function_items[i].name = nm_calls[i].name
          /\ nm_self.function_items[i].type_index < Len(nm_self.function_types)
          /\ nm_self.function_types[nm_self.function_items[i].type_index + 1]
               = FunctionType(nm_calls[i].params, nm_calls[i].results)

\* four calls of which the third repeats the type of the first under another
\* name, after a call of another type
C22_Witness ==
    /\ Len(nm_calls) = 4
    /\ Len(nm_self.function_types) = 2
    /\ nm_self.function_items[3].type_index = 0
    /\ nm_self.function_items[2].type_index = 1
    /\ nm_calls[3].name # nm_calls[1].name

----------------------------------------------------------------------------
(* Claims about the branches. *)

\* the ControlResult of the last control instruction
LastControlResult == control_result(vm_before, LastInstruction.control).result

\* the last instruction was a br, br_if or br_table that was taken
LastBranchTaken ==
    /\ Stepped
    /\ LastInstruction.variant = "Control"
    /\ LastInstruction.control.op \in {"Break", "BreakWhenNotEqZero", "Recur",
                                       "RecurWhenNotEqZero", "Branch"}
    /\ IsOk(vm_result)
    /\ LastControlResult.ok.cr # "Sequence"

\* the stack the branch works on: a br_if or br_table has taken its i32 off
LastBranchStack ==
    IF LastInstruction.control.op \in {"Break", "Recur"}
    THEN vm_before.stack
    ELSE SubSeq(vm_before.stack, 1, Len(vm_before.stack) - 1)

\* the relative depth of the branch, for a br_table the one its index picks
LastBranchDepth ==
    LET control == LastInstruction.control
        index == vm_before.stack[Len(vm_before.stack)].value
    IN CASE control.op # "Branch" -> control.relative_depth
         [] control.op = "Branch" /\ index < Len(control.branch_targets) ->
               control.branch_targets[index + 1].relative_depth
         [] OTHER -> control.default_branch_target.relative_depth

\* the frame the branch aims at
LastBranchTarget == target_frame(vm_before, LastBranchDepth)

\* what the target declares for the operands carried: the parameters of a
\* loop, the results of a block or of the function
LastBranchTypes ==
    IF LastInstruction.control.op \in {"Recur", "RecurWhenNotEqZero"}
    THEN param_types(LastBranchTarget, LastBranchTarget.status.frame_type)
    ELSE result_types(LastBranchTarget)

----------------------------------------------------------------------------
(* Claims about the program counter. *)

\* the VM as the handler of the last instruction left it, before
\* exec_instruction looked at the result
LastHandlerVm ==
    IF LastInstruction.variant = "Sequence"
    THEN sequence_result(vm_before, LastInstruction.instruction).vm
    ELSE control_result(vm_before, LastInstruction.control).vm

\* C24: exec_instruction changes the status only as the result prescribes.
\* After a successful sequence instruction and after ControlResult::Sequence
\* the address is one more than before and no other status field is touched;
\* JumpWithinBlock replaces the address only; JumpWithinFunction replaces
\* frame_type and address only, so vm_module_index and function_index stay;
\* PushStackFrame and PopStackFrame replace vm_module_index, function_index,
\* frame_type and address; ProgramEnd touches nothing; and Ok(true) is
\* returned exactly for ProgramEnd.
C24_ProgramCounterFollowsResult ==
    (Stepped /\ IsOk(vm_result)) =>
      LET handled == LastHandlerVm.status
      IN IF LastInstruction.variant = "Sequence"
         THEN /\ vm.status = [handled EXCEPT !.address = vm_before.status.address + 1]
              /\ handled = vm_before.status
              /\ ~vm_result.ok
         ELSE LET c == LastControlResult.ok
              IN /\ vm_result.ok <=> c.cr = "ProgramEnd"
                 /\ c.cr = "ProgramEnd" => vm.status = handled
                 /\ c.cr = "Sequence" =>
                      vm.status = [handled EXCEPT !.address = vm_before.status.address + 1]
                 /\ c.cr = "JumpWithinBlock" =>
                      /\ vm.status = [handled EXCEPT !.address = c.address]
                      /\ handled = vm_before.status
                 /\ c.cr = "JumpWithinFunction" =>
                      /\ vm.status = [handled EXCEPT !.frame_type = c.frame_type,
                                                     !.address = c.address]
                      /\ vm.status.vm_module_index = vm_before.status.vm_module_index
                      /\ vm.status.function_index = vm_before.status.function_index
                 /\ c.cr \in {"PushStackFrame", "PopStackFrame"} =>
                      vm.status = [handled EXCEPT !.vm_module_index = c.vm_module_index,
                                                  !.function_index = c.function_index,
                                                  !.frame_type = c.frame_type,
                                                  !.address = c.address]

\* a jump within a block frame went over one instruction
C24_Witness ==
    /\ Stepped
    /\ IsOk(vm_result)
    /\ LastInstruction.variant = "Control"
    /\ LastControlResult.ok.cr = "JumpWithinBlock"
    /\ vm.status.address = vm_before.status.address + 2
    /\ ~is_call_frame(vm)

----------------------------------------------------------------------------
(* Claims about the two phases of link_tables and link_memorys. *)

\* the modules without an import of the kind
ResourceOwners == AstModuleIndexes \ ResourceImporters

\* the first phase is over
LtCreated == lt_pc # "create"

\* C25: the first phase of link_tables (link_memorys) gives every module
\* without an import of the kind an instance of its own, made from its first
\* definition or as the (0, 0) placeholder when it defines none; the indices
\* of these modules are pairwise distinct; the second phase adds no instance
\* and leaves these slots alone, so that the number of instances is the
\* number of modules without such an import.
C25_OwnInstancePerOwner ==
    /\ ~LtCreated => instance_tables = <<>>
    /\ LtCreated =>
         /\ Len(instance_tables) = Cardinality(ResourceOwners)
         /\ \A m \in ResourceOwners :
               /\ IsSome(module_to_table_index_list[m + 1])
               /\ Unwrap(module_to_table_index_list[m + 1]) < Len(instance_tables)
               /\ instance_tables[Unwrap(module_to_table_index_list[m + 1]) + 1].type =
                     IF ResourceDefinitions(AstModuleAt(m)) # <<>>
                     THEN ResourceDefinitions(AstModuleAt(m))[1]
                     ELSE DefaultResourceType
         /\ \A m, n \in ResourceOwners :
               m # n => module_to_table_index_list[m + 1] # module_to_table_index_list[n + 1]
    /\ LtOk => Len(lt_result.ok.instances) = Cardinality(ResourceOwners)

\* the link is through: two modules import, one of the other two defines two
\* resources and one defines none
C25_Witness ==
    /\ LtOk
    /\ Cardinality(ResourceImporters) = 2
    /\ \E m \in ResourceOwners : Len(ResourceDefinitions(AstModuleAt(m))) = 2
    /\ \E m \in ResourceOwners : ResourceDefinitions(AstModuleAt(m)) = <<>>

----------------------------------------------------------------------------
(* Claims about the checks of resolve_ast_module_table / _memory_block. *)

LtErr == "err" \in DOMAIN lt_result

\* the modules that have the name importer m imports from
ImportTargetsOf(m) ==
    {t \in AstModuleIndexes :
        named_ast_modules[t + 1].name =
           Unwrap(find_resource_import(AstModuleAt(m))).module_name}

\* the indices under which module t exports a resource of the kind by the
\* name importer m asks for, in the order of the export items
ExportIndicesFor(m, t) ==
    LET name == Unwrap(find_resource_import(AstModuleAt(m))).item_name
        items == AstModuleAt(t).export_items
    IN {i \in 1..Len(items) :
           /\ items[i].export_descriptor.kind = ExportDescriptorKind
           /\ items[i].name = name}

\* the first of the checks on the import of m that fails, "none" when the
\* module, the export and the export index are as required
FirstFailingCheck(m) ==
    IF ImportTargetsOf(m) = {}
    THEN "ModuleNotFound"
    ELSE LET t == SetMin(ImportTargetsOf(m))
         IN IF ExportIndicesFor(m, t) = {}
            THEN ResourceErrorName("NotFound")
            ELSE IF AstModuleAt(t).export_items[SetMin(ExportIndicesFor(m, t))]
                       .export_descriptor.index # 0
            THEN ResourceErrorName("Multiple")
            ELSE "none"

\* C26: resolving the import of a module checks, in this order, that the
\* target module exists (ModuleNotFound), that it exports a table (memory)
\* by the name (TableNotFound / MemoryBlockFound), that the export index is 0
\* (UnsupportedMultipleTable / UnsupportedMultipleMemoryBlock) and then the
\* type (ImportedTableTypeMismatch / ImportedMemoryBlockTypeMismatch).  The
\* first check that fails is the error of the link, the slot of the importer
\* and of every importer waiting for it stays unresolved, and the link
\* returns Ok only when every importer passes the first three checks.
C26_ChecksInOrder ==
    /\ LtErr =>
         LET failing == lt_call_stack[Len(lt_call_stack)]
         IN /\ failing \in ResourceImporters
            /\ lt_result.err = IF FirstFailingCheck(failing) = "none"
                               THEN ResourceErrorName("TypeMismatch")
                               ELSE FirstFailingCheck(failing)
            /\ \A i \in 1..Len(lt_call_stack) :
                  module_to_table_index_list[lt_call_stack[i] + 1] = None
    /\ LtOk => \A m \in ResourceImporters : FirstFailingCheck(m) = "none"

\* an importer was resolved by way of a second one, whose target exports its
\* resource under index 1: the link failed, both slots are unresolved
C26_Witness ==
    /\ LtErr
    /\ Len(lt_call_stack) = 2
    /\ lt_result.err = ResourceErrorName("Multiple")
    /\ module_to_table_index_list[lt_call_stack[1] + 1] = None
    /\ module_to_table_index_list[lt_call_stack[2] + 1] = None

----------------------------------------------------------------------------
(* Claims about the slots of the global variables. *)

\* the first phase of link_global_variables went through
LgCreated == lg_pc # "create" /\ ~LgErr("ConstantExpressionValueTypeMismatch")

\* the number of internal globals of the modules before module m
InternalGlobalsBefore(m) == Len(GlobalItemsUpTo(m))

GlobalImportCount(m) == Len(global_imports(AstModuleAt(m)))

\* what import number i (from 1) of module m names, when that is a global the
\* target module defines itself: the target and the position of the global
\* among the target's own ones, as a set of at most one pair
ImportedInternalGlobal(m, i) ==
    LET import_item == global_imports(AstModuleAt(m))[i]
        targets == {t \in AstModuleIndexes :
                       named_ast_modules[t + 1].name = import_item.module_name}
    IN IF targets = {} THEN {}
       ELSE LET t == SetMin(targets)
                items == AstModuleAt(t).export_items
                exports == {j \in 1..Len(items) :
                               /\ items[j].export_descriptor.kind = "GlobalItemIndex"
                               /\ items[j].name = import_item.item_name}
            IN IF exports = {} THEN {}
               ELSE LET index == items[SetMin(exports)].export_descriptor.index
                    IN IF index >= GlobalImportCount(t)
                       THEN {<<t, index - GlobalImportCount(t)>>}
                       ELSE {}

\* C27: in the index list of a module the slots of its global imports come
\* first, in declaration order, and the slots of its internal globals
\* follow, in definition order; every internal global has an instance of its
\* own, so that the number of instances is the number of internal globals of
\* all modules, and resolving the imports adds no instance.
C27_ImportSlotsThenInternalSlots ==
    /\ LgCreated =>
         /\ Len(instance_global_variables) = Len(AllGlobalItems)
         /\ \A m \in AstModuleIndexes :
               LET slots == module_to_global_variables_list[m + 1]
                   items == AstModuleAt(m).global_items
               IN /\ Len(slots) = GlobalImportCount(m) + Len(items)
                  /\ \A k \in 1..Len(items) :
                        LET index == InternalGlobalsBefore(m) + k - 1
                        IN /\ slots[GlobalImportCount(m) + k] = Some(index)
                           /\ instance_global_variables[index + 1].global_type =
                                 items[k].global_type
                           /\ instance_global_variables[index + 1].value =
                                 InitialiserValue(items[k])
    /\ LgOk =>
         /\ Len(lg_result.ok.instances) = Len(AllGlobalItems)
         /\ \A m \in AstModuleIndexes :
               \A i \in 1..GlobalImportCount(m) :
                  \A q \in ImportedInternalGlobal(m, i) :
                     lg_result.ok.list[m + 1][i] = InternalGlobalsBefore(q[1]) + q[2]

\* the link is through for a module with two imports, bound to the second
\* global of one module and to the global of another, and one global of its
\* own in the third slot
C27_Witness ==
    /\ LgOk
    /\ \E m \in AstModuleIndexes :
          /\ GlobalImportCount(m) = 2
          /\ Len(lg_result.ok.list[m + 1]) = 3
          /\ lg_result.ok.list[m + 1][1] # lg_result.ok.list[m + 1][2]
          /\ \E i \in 1..2 : \E q \in ImportedInternalGlobal(m, i) : q[2] = 1

----------------------------------------------------------------------------
(* Claims about the items of get_function_block_items. *)

\* the positions of the returned items that start at address a
ItemsStartingAt(a) == {i \in 1..Len(gb_block_items) : gb_block_items[i].start_address = a}

\* the address of the end that closes the function body
TrailingEndAddress == Len(gb_instruction_items) - 1

\* C28: get_function_block_items returns exactly one item for every block,
\* loop and if of the body, of the kind and block type of the instruction
\* and with start_address the address of the instruction, and nothing else;
\* the end met while no block is open, the last instruction of the body,
\* gives no item and changes none: the items are those of the body without
\* it.
C28_OneItemPerOpeningInstruction ==
    GbDone =>
        /\ Len(gb_block_items) = Cardinality(OpeningAddresses(gb_instruction_items))
        /\ \A a \in OpeningAddresses(gb_instruction_items) :
              /\ Cardinality(ItemsStartingAt(a)) = 1
              /\ \A i \in ItemsStartingAt(a) :
                    /\ gb_block_items[i].kind = gb_instruction_items[a + 1].op
                    /\ gb_block_items[i].block_type = gb_instruction_items[a + 1].block_type
        /\ gb_instruction_items[TrailingEndAddress + 1].op = "End"
        /\ \A i \in 1..Len(gb_block_items) : gb_block_items[i].end_address < TrailingEndAddress
        /\ gb_block_items =
              get_function_block_items(SubSeq(gb_instruction_items, 1, TrailingEndAddress))

\* a body of a block, a loop and an if, each closed, and the trailing end
C28_Witness ==
    /\ GbDone
    /\ Len(gb_block_items) = 3
    /\ {gb_block_items[i].kind : i \in 1..3} = {"Block", "Loop", "If"}
    /\ TrailingEndAddress = 6

----------------------------------------------------------------------------
(* Claims about the variant of the errors of process_end. *)

\* the last instruction was an end that process_end answered with an error
LastEndFailed == LastWasEnd /\ IsErr(vm_result)

BlockVariantKinds == {"NotEnoughOperandForBlockResult", "BlockResultTypeMismatch"}

FunctionVariantKinds == {"NotEnoughOperandForFunctionResult", "FunctionResultTypeMismatch"}

----------------------------------------------------------------------------
(* Claims about the module names of function imports. *)

\* the module name import i of AST module m declares
DeclaredModuleName(m, i) ==
    get_ast_module_import_function_locations(AstModuleAt(m))[i + 1].module_name

\* the native modules of a name
NativeModulesNamed(name) ==
    {n \in 0..(Len(native_modules) - 1) : native_modules[n + 1].name = name}

\* C30: the module name of a function import is looked up among the native
\* modules first and the AST modules after them, and the first module of the
\* name is taken.  An import whose module name a native module has is bound
\* to a function of the first such native module, also when an AST module
\* has the same name; an import is bound to a function of an AST module only
\* through names that no native module has; and the link fails with
\* FunctionNotFound (no export in an AST module) only for a name no native
\* module has and with NativeFunctionNotFound only for the name of a native
\* module.
C30_NativeModulesFirst ==
    /\ \A m \in 0..(Len(ItemsSoFar) - 1) :
          \A i \in 0..(ImportCount(m) - 1) :
             i < Len(ItemsSoFar[m + 1]) =>
                LET item == ItemsSoFar[m + 1][i + 1]
                    natives == NativeModulesNamed(DeclaredModuleName(m, i))
                IN /\ natives # {} =>
                        /\ item.kind = "Native"
                        /\ item.native_module_index = SetMin(natives)
                   /\ item.kind = "Native" =>
                        /\ item.native_module_index < Len(native_modules)
                        /\ ImportTarget(m, i).kind = "Native"
                        /\ ImportTarget(m, i).module_index = item.native_module_index
                   /\ item.kind = "Normal" =>
                        /\ natives = {}
                        /\ NativeModulesNamed(
                              named_ast_modules[item.vm_module_index + 1].name) = {}
    /\ LfFailed =>
          /\ lf_result.err = "FunctionNotFound" =>
                NativeModulesNamed(lf_result.module_name) = {}
          /\ lf_result.err = "NativeFunctionNotFound" =>
                NativeModulesNamed(lf_result.module_name) # {}
          /\ lf_result.err = "ModuleNotFound" =>
                /\ NativeModulesNamed(lf_result.module_name) = {}
                /\ \A m \in AstModuleIndexes :
                      named_ast_modules[m + 1].name # lf_result.module_name

\* the link is through; the second native module and the first AST module
\* are both named A and both have a function x, and an import of A.x in
\* another AST module is bound to the native one
C30_Witness ==
    /\ lf_pc = "done"
    /\ LfOk
    /\ NativeModulesNamed("A") = {1}
    /\ ExportedLocation(0, "x") # {}
    /\ \E m \in AstModuleIndexes :
          /\ m # 0
          /\ ImportCount(m) >= 1
          /\ DeclaredModuleName(m, 0) = "A"
          /\ lf_result.ok[m + 1][1].kind = "Native"
          /\ lf_result.ok[m + 1][1].native_module_index = 1

----------------------------------------------------------------------------
(* Claims about the addresses of the internal functions, linker.rs 282-314. *)

\* the instruction sequences of the internal functions of AST module m, merged
ModuleInstructionStream(m) ==
    LET code_items == AstModuleAt(m).code_items
        RECURSIVE Merge(_)
        Merge(k) == IF k = 0 THEN <<>>
                    ELSE Merge(k - 1) \o code_items[k].instruction_items
    IN Merge(Len(AstModuleAt(m).internal_function_to_type_index_list))

\* the function items link_functions has built for the internal functions of
\* AST module m, in the order of the functions
InternalItemsSoFar(m) ==
    IF m + 1 > Len(ItemsSoFar) THEN <<>>
    ELSE SubSeq(ItemsSoFar[m + 1], ImportCount(m) + 1, Len(ItemsSoFar[m + 1]))

\* C31: the address ranges of the internal functions of a module tile the
\* merged instruction stream of the module: the first function starts at 0,
\* each next one starts at the end_address of the previous one plus 1,
\* end_address = start_address + instruction count - 1 is the address of the
\* final end instruction of the function (the last function ends at the last
\* address of the stream), and the ranges of two functions never overlap
C31_FunctionRangesTileTheStream ==
    \A m \in AstModuleIndexes :
        LET items == InternalItemsSoFar(m)
            stream == ModuleInstructionStream(m)
            code_items == AstModuleAt(m).code_items
        IN /\ \A j \in 1..Len(items) :
                /\ items[j].kind = "Normal"
                /\ items[j].internal_function_index = j - 1
                /\ items[j].start_address =
                      (IF j = 1 THEN 0 ELSE items[j - 1].end_address + 1)
                /\ items[j].end_address =
                      items[j].start_address + Len(code_items[j].instruction_items) - 1
                /\ items[j].end_address < Len(stream)
                /\ stream[items[j].end_address + 1] = InsEnd
                /\ SubSeq(stream, items[j].start_address + 1, items[j].end_address + 1)
                      = code_items[j].instruction_items
           /\ \A j, k \in 1..Len(items) :
                j # k => \/ items[j].end_address < items[k].start_address
                         \/ items[k].end_address < items[j].start_address
           /\ (/\ Len(items) > 0
               /\ Len(items) = Len(AstModuleAt(m).internal_function_to_type_index_list))
              => items[Len(items)].end_address = Len(stream) - 1

\* a link that succeeded over a module with three internal functions of two
\* different lengths
C31_Witness ==
    /\ LfOk
    /\ \E m \in AstModuleIndexes :
          /\ Len(InternalItemsSoFar(m)) = 3
          /\ Len(AstModuleAt(m).code_items[1].instruction_items)
                # Len(AstModuleAt(m).code_items[2].instruction_items)
          /\ InternalItemsSoFar(m)[3].start_address > 0

----------------------------------------------------------------------------
(* Claims about the indices into the instance list, linker.rs 632-663,       *)
(* 790-823.                                                                  *)

LtIndexPanic == "panic" \in DOMAIN lt_result /\ lt_result.panic = "IndexOutOfBounds"

\* C32: during link_tables (link_memorys) every index used to read the
\* instance list is smaller than the number of instances, so that no read is
\* out of range, for every order of the modules and every re-export chain;
\* every index stored in the module-to-instance map, and on Ok every index
\* returned, is a valid index into the instance list
C32_InstanceIndexInRange ==
    /\ ~LtIndexPanic
    /\ \A m \in 1..Len(module_to_table_index_list) :
          module_to_table_index_list[m] # None
             => Unwrap(module_to_table_index_list[m]) < Len(instance_tables)
    /\ LtOk => \A m \in 1..Len(lt_result.ok.list) :
                  lt_result.ok.list[m] < Len(lt_result.ok.instances)

----------------------------------------------------------------------------
(* Claims about the subtraction of process_end, ins_control.rs 92-96. *)

\* the operand cells of the current frame of vm_: the cells from its
\* base_pointer up that do not belong to its info segment
OperandCells(vm_) ==
    {i \in (vm_.status.base_pointer + 1)..Len(vm_.stack) : vm_.stack[i].type # "Info"}

SubtractionOverflowed ==
    IsPanic(vm_result) /\ vm_result.panic = "attempt to subtract with overflow"

----------------------------------------------------------------------------
(* Claims about the Normal items of link_functions, linker.rs 185-252. *)

\* the places (module, position), 1-based, of the Normal items built so far
NormalItemPlaces ==
    {q \in (1..Len(ItemsSoFar)) \X (1..5) :
        /\ q[2] <= Len(ItemsSoFar[q[1]])
        /\ ItemsSoFar[q[1]][q[2]].kind = "Normal"}

\* C34: every FunctionItem::Normal link_functions builds, for an internal
\* function or for a resolved import, designates an internal function of
\* the module its vm_module_index names: function_index is at least the
\* number of function imports of that module and below its number of
\* functions, internal_function_index is function_index minus the number of
\* imports, and type_index is the type index that module gives the function,
\* an index into that module's type table
C34_NormalItemDesignatesInternalFunction ==
    \A q \in NormalItemPlaces :
        LET item == ItemsSoFar[q[1]][q[2]]
            t == item.vm_module_index
        IN /\ t \in AstModuleIndexes
           /\ item.function_index >= ImportCount(t)
           /\ item.function_index < Len(function_locations_list[t + 1])
           /\ item.internal_function_index = item.function_index - ImportCount(t)
           /\ item.type_index < Len(AstModuleAt(t).type_items)
           /\ item.type_index =
                 AstModuleAt(t).internal_function_to_type_index_list[
                     item.internal_function_index + 1]

\* a link that succeeded with an import bound to an internal function of
\* another module that is not that module's first function and whose type
\* index there is not the one the importer declares
C34_Witness ==
    /\ lf_pc = "done"
    /\ LfOk
    /\ \E q \in NormalItemPlaces :
          LET item == ItemsSoFar[q[1]][q[2]]
          IN /\ q[2] <= ImportCount(q[1] - 1)
             /\ item.vm_module_index # q[1] - 1
             /\ item.internal_function_index = 1
             /\ item.function_index # q[2] - 1
             /\ item.type_index #
                   function_locations_list[q[1]][q[2]].type_index

----------------------------------------------------------------------------
(* Claims about the order of the block items, linker.rs 440-458. *)

\* the items in the order the scan collects them, before the sort of line 452
CollectedBlockItems == get_function_block_items_Unsorted(gb_instruction_items)

\* C35: with the block indices of a function assigned in depth-first
\* pre-order from 0, the list get_function_block_items returns has strictly
\* increasing start addresses and its item at position i is the block of
\* index i, although the items are collected in the order their end is met
\* (by increasing end_address); the returned list holds the collected items
C35_ItemsInOpeningOrder ==
    GbDone =>
        /\ \A i, j \in 1..Len(gb_block_items) :
              i < j => gb_block_items[i].start_address < gb_block_items[j].start_address
        /\ \A i \in 1..Len(gb_block_items) :
              gb_instruction_items[gb_block_items[i].start_address + 1].block_index = i - 1
        /\ \A i, j \in 1..Len(CollectedBlockItems) :
              i < j => CollectedBlockItems[i].end_address < CollectedBlockItems[j].end_address
        /\ Len(CollectedBlockItems) = Len(gb_block_items)
        /\ Range(CollectedBlockItems) = Range(gb_block_items)

\* a body whose blocks are collected in the reverse of the order returned:
\* three blocks nested in one another
C35_Witness ==
    /\ GbDone
    /\ Len(gb_block_items) = 3
    /\ \A i \in 1..3 : CollectedBlockItems[i] = gb_block_items[4 - i]

----------------------------------------------------------------------------
(* Claims about the items of a NativeModule, native_module.rs 40-84. *)

\* the function of every call so far is stored at the index of the call, with
\* a type_index that names the function type of the call
ItemsFollowCalls ==
    /\ Len(nm_self.function_items) = Len(nm_calls)
    /\ \A i \in 1..Len(nm_calls) :
          LET item == nm_self.function_items[i]
          IN /\ item.name = nm_calls[i].name
             /\ item.type_index \in 0..(Len(nm_self.function_types) - 1)
             /\ nm_self.function_types[item.type_index + 1].params = nm_calls[i].params
             /\ nm_self.function_types[item.type_index + 1].results = nm_calls[i].results

\* a call of add_function leaves the items and the function types that were
\* there where they were
EarlierItemsKept ==
    /\ Len(nm_self'.function_items) >= Len(nm_self.function_items)
    /\ \A i \in 1..Len(nm_self.function_items) :
          nm_self'.function_items[i] = nm_self.function_items[i]
    /\ \A t \in 1..Len(nm_self.function_types) :
          nm_self'.function_types[t] = nm_self.function_types[t]

\* C36: after any sequence of add_function calls the function of the i-th
\* call is stored at index i of function_items, its type_index is a valid
\* index into function_types and function_types[type_index] is the (params,
\* results) of that call; a later call never changes the type_index of an
\* earlier function
C36_ItemsStoredInCallOrder ==
    /\ []ItemsFollowCalls
    /\ [][EarlierItemsKept]_vars

\* three calls: the second repeats the function type of the first, the third
\* brings a new one
C36_Witness ==
    /\ Len(nm_calls) = 3
    /\ nm_self.function_items[1].type_index = 0
    /\ nm_self.function_items[2].type_index = 0
    /\ nm_self.function_items[3].type_index = 1
    /\ Len(nm_self.function_types) = 2

\* the indices (0-based) of the add_function calls that gave `name`
CallsNamed(name) == {i - 1 : i \in {j \in 1..Len(nm_calls) : nm_calls[j].name = name}}

\* C37: find_function_index_by_name returns the smallest index of a function
\* item with the given name, and None exactly when no function of that name
\* was added; add_function accepts a name that is in use, and the later
\* function of that name is never the one found
C37_FirstFunctionOfTheName ==
    /\ nm_found.called =>
          LET added == CallsNamed(nm_found.name)
          IN /\ nm_found.result = None <=> added = {}
             /\ added # {} =>
                   /\ Unwrap(nm_found.result) \in added
                   /\ nm_self.function_items[Unwrap(nm_found.result) + 1].name = nm_found.name
                   /\ \A i \in added : Unwrap(nm_found.result) <= i
    /\ \A name \in NativeFunctionNames :
          Cardinality({i \in 1..Len(nm_self.function_items) :
                          nm_self.function_items[i].name = name})
             = Cardinality(CallsNamed(name))

\* a lookup of a name that was added twice, after a function of another name,
\* next to which a name never added would give None
C37_Witness ==
    /\ nm_found.called
    /\ nm_found.result = Some(1)
    /\ Cardinality(CallsNamed(nm_found.name)) >= 2
    /\ find_function_index_by_name(nm_self, "z") = None

====
